---- MODULE Spec2Model ----
(***************************************************************************)
(* Model of the resume parsing and analysis utilities of find-jobs-ai      *)
(* (src/lib/resumeParser.ts), of its two job search handlers and of the    *)
(* search page that reads the streamed response.  Texts are TLA+ strings,  *)
(* handled character by character; arrays are sequences; the module-level  *)
(* regular expressions carry their lastIndex as state.                     *)
(***************************************************************************)
EXTENDS Integers, Sequences, FiniteSets, TLC

VARIABLES
    lastIndex,    \* lastIndex of each of the six METRICS_PATTERNS
    parsed,       \* the ParsedResume returned by the last parseResumeText call
    prevParsed,   \* the ParsedResume a caller kept from an earlier call
    analysis,     \* the last analyzeResumeForJob call: arguments and result
    prevAnalysis, \* an analyzeResumeForJob call a caller kept from earlier
    linkedin,     \* the last analyzeLinkedInProfile call: arguments and result
    server,       \* a search handler at work: its request, its locals and its response
    client,       \* the state of the Home component and of its handleSubmit
    heap          \* the arrays a caller of the two scorers holds, by reference

vars == <<lastIndex, parsed, prevParsed, analysis, prevAnalysis, linkedin, server, client, heap>>

-----------------------------------------------------------------------------
(* Strings and arrays of JavaScript                                        *)

\* s[i-1], or "" past either end
CharAt(s, i) == IF i >= 1 /\ i <= Len(s) THEN SubSeq(s, i, i) ELSE ""

\* the characters i..j of s, both ends clipped to the string
Clip(s, i, j) ==
    LET lo == IF i < 1 THEN 1 ELSE i
        hi == IF j > Len(s) THEN Len(s) ELSE j
    IN  IF lo > hi THEN "" ELSE SubSeq(s, lo, hi)

\* the lower-case letter of every upper-case letter
LowerOf ==
    [ A |-> "a", B |-> "b", C |-> "c", D |-> "d", E |-> "e", F |-> "f", G |-> "g",
      H |-> "h", I |-> "i", J |-> "j", K |-> "k", L |-> "l", M |-> "m", N |-> "n",
      O |-> "o", P |-> "p", Q |-> "q", R |-> "r", S |-> "s", T |-> "t", U |-> "u",
      V |-> "v", W |-> "w", X |-> "x", Y |-> "y", Z |-> "z" ]

\* the character as it is: toLowerCase left out
KeepChar(c) == c

\* one character of String.prototype.toLowerCase
LowerChar(c) == IF c \in DOMAIN LowerOf THEN LowerOf[c] ELSE c

\* the characters i..j of s in lower case, computed by halves
RECURSIVE LowerRange(_, _, _)
LowerRange(s, i, j) ==
    IF i > j THEN ""
    ELSE IF i = j THEN LowerChar(CharAt(s, i))
    ELSE LET mid == (i + j) \div 2
         IN  LowerRange(s, i, mid) \o LowerRange(s, mid + 1, j)

\* String.prototype.toLowerCase
ToLowerCase(s) == LowerRange(s, 1, Len(s))

\* String.prototype.includes
Includes(text, term) ==
    \E i \in 0..(Len(text) - Len(term)) : SubSeq(text, i + 1, i + Len(term)) = term

\* Array.prototype.join
RECURSIVE Join(_, _)
Join(seq, sep) ==
    IF seq = <<>> THEN ""
    ELSE IF Len(seq) = 1 THEN seq[1]
    ELSE seq[1] \o sep \o Join(Tail(seq), sep)

\* the array whole: slice(0, n) left out
SliceAll(seq, n) == seq

\* Array.prototype.slice(0, n)
Slice(seq, n) == SubSeq(seq, 1, IF Len(seq) < n THEN Len(seq) ELSE n)

\* Array.prototype.slice(-n)
SliceLast(seq, n) == SubSeq(seq, IF Len(seq) > n THEN Len(seq) - n + 1 ELSE 1, Len(seq))

\* Array.prototype.includes
Contains(seq, x) == \E i \in 1..Len(seq) : seq[i] = x

\* the sequence as it is, repeated elements kept
KeepDuplicates(seq) == seq

\* [...new Set(seq)]: the first occurrence of every element, in order
RECURSIVE Dedupe(_)
Dedupe(seq) ==
    IF seq = <<>> THEN <<>>
    ELSE LET init == Dedupe(SubSeq(seq, 1, Len(seq) - 1))
             last == seq[Len(seq)]
         IN  IF Contains(init, last) THEN init ELSE Append(init, last)

\* the decimal digits of `${n}`
DigitChar(d) ==
    CASE d = 0 -> "0" [] d = 1 -> "1" [] d = 2 -> "2" [] d = 3 -> "3" [] d = 4 -> "4"
      [] d = 5 -> "5" [] d = 6 -> "6" [] d = 7 -> "7" [] d = 8 -> "8" [] OTHER -> "9"

RECURSIVE NumberToString(_)
NumberToString(n) ==
    IF n < 10 THEN DigitChar(n) ELSE NumberToString(n \div 10) \o DigitChar(n % 10)

-----------------------------------------------------------------------------
(* Vocabulary tables                                                       *)

TECH_SKILLS == <<
    "javascript", "typescript", "python", "java", "c++", "c#", "go", "rust", "ruby", "php", "swift", "kotlin",
    "react", "angular", "vue", "svelte", "next.js", "node.js", "express", "django", "flask", "fastapi", "spring",
    "aws", "azure", "gcp", "docker", "kubernetes", "terraform", "jenkins", "ci/cd", "devops",
    "sql", "postgresql", "mysql", "mongodb", "redis", "elasticsearch", "graphql", "rest api",
    "machine learning", "deep learning", "tensorflow", "pytorch", "scikit-learn", "nlp", "computer vision",
    "git", "agile", "scrum", "jira", "confluence", "figma", "sketch",
    "html", "css", "sass", "tailwind", "bootstrap", "webpack", "vite",
    "testing", "jest", "cypress", "selenium", "unit testing", "integration testing",
    "microservices", "api design", "system design", "distributed systems", "scalability",
    "data analysis", "data visualization", "tableau", "power bi", "excel", "pandas", "numpy",
    "leadership", "management", "communication", "problem-solving", "teamwork", "collaboration" >>

ACTION_VERBS == <<
    "achieved", "built", "created", "delivered", "developed", "designed", "established",
    "generated", "implemented", "improved", "increased", "launched", "led", "managed",
    "optimized", "reduced", "resolved", "scaled", "spearheaded", "streamlined", "transformed" >>

experienceIndicators == << "experience", "work history", "employment", "professional background" >>

educationKeywords == << "bachelor", "master", "phd", "degree", "university", "college", "certification", "certified" >>

certKeywords == << "aws certified", "google certified", "microsoft certified", "pmp", "scrum master", "cissp", "cka", "ckad" >>

jobTerms == <<
    "remote", "hybrid", "onsite", "full-time", "contract",
    "senior", "junior", "lead", "principal", "staff", "manager",
    "startup", "enterprise", "b2b", "b2c", "saas",
    "cross-functional", "stakeholder", "roadmap", "strategy",
    "analytics", "metrics", "kpi", "okr", "roi" >>

-----------------------------------------------------------------------------
(* METRICS_PATTERNS: six global regular expressions                        *)

NumPatterns == 6

IsDigit(c) == c \in {"0", "1", "2", "3", "4", "5", "6", "7", "8", "9"}

\* \s
IsSpace(c) == c \in {" ", "\t", "\n", "\r"}

\* length of the longest run of \d starting at position i
RECURSIVE DigitRun(_, _)
DigitRun(text, i) == IF IsDigit(CharAt(text, i)) THEN 1 + DigitRun(text, i + 1) ELSE 0

\* length of the longest run of [\d,] starting at position i
RECURSIVE AmountRun(_, _)
AmountRun(text, i) ==
    IF IsDigit(CharAt(text, i)) \/ CharAt(text, i) = "," THEN 1 + AmountRun(text, i + 1) ELSE 0

\* length of the longest run of \s starting at position i
RECURSIVE SpaceRun(_, _)
SpaceRun(text, i) == IF IsSpace(CharAt(text, i)) THEN 1 + SpaceRun(text, i + 1) ELSE 0

\* the alternation that ends patterns 4, 5 and 6
PatternWords(p) ==
    CASE p = 4 -> << "users", "customers", "clients", "employees", "team members" >>
      [] p = 5 -> << "years", "months" >>
      [] p = 6 -> << "projects", "applications", "systems", "features" >>
      [] OTHER -> <<>>

\* length of the alternative of pattern p matched at position j, ignoring case; 0 if none
WordLen(text, j, p) ==
    LET words == PatternWords(p)
        hits == { k \in 1..Len(words) :
                    ToLowerCase(Clip(text, j, j + Len(words[k]) - 1)) = words[k] }
    IN  IF hits = {} THEN 0
        ELSE Len(words[CHOOSE k \in hits : \A h \in hits : k <= h])

\* length of the match of pattern p that starts at position i (1-based); 0 if none
MatchLen(text, i, p) ==
    LET d == DigitRun(text, i)
    IN  CASE p = 1 -> IF d > 0 /\ CharAt(text, i + d) = "%" THEN d + 1 ELSE 0
          [] p = 2 -> IF CharAt(text, i) = "$" /\ AmountRun(text, i + 1) > 0
                      THEN 1 + AmountRun(text, i + 1) ELSE 0
          [] p = 3 -> IF d > 0 /\ CharAt(text, i + d) = "x" THEN d + 1 ELSE 0
          [] OTHER ->
                IF d = 0 THEN 0
                ELSE LET plus == IF CharAt(text, i + d) = "+" THEN 1 ELSE 0
                         sp   == SpaceRun(text, i + d + plus)
                         w    == WordLen(text, i + d + plus + sp, p)
                     IN  IF w > 0 THEN d + plus + sp + w ELSE 0

\* RegExpBuiltinExec of a global pattern from lastIndex li (0-based):
\* the leftmost match at or after li and the lastIndex it leaves
RegExpExec(text, p, li) ==
    LET starts == { i \in (li + 1)..Len(text) : MatchLen(text, i, p) > 0 }
    IN  IF starts = {} THEN [match |-> "", found |-> FALSE, lastIndex |-> 0]
        ELSE LET i == CHOOSE k \in starts : \A h \in starts : k <= h
                 n == MatchLen(text, i, p)
             IN  [match |-> SubSeq(text, i, i + n - 1), found |-> TRUE, lastIndex |-> i + n - 1]

\* the exec loop of RegExp.prototype[Symbol.match] for a global pattern
RECURSIVE MatchLoop(_, _, _, _)
MatchLoop(text, p, li, acc) ==
    LET r == RegExpExec(text, p, li)
    IN  IF r.found THEN MatchLoop(text, p, r.lastIndex, Append(acc, r.match))
        ELSE [matches |-> acc, lastIndex |-> r.lastIndex]

\* text.match(pattern): lastIndex is set to 0, then exec runs until it fails
StringMatch(text, p) == MatchLoop(text, p, 0, <<>>)

-----------------------------------------------------------------------------
(* parseResumeText                                                         *)

\* the pieces of at most three characters that occur in text
Grams(text) ==
    { Clip(text, i, i + 2) : i \in 1..Len(text) } \cup { Clip(text, i, i + 1) : i \in 1..Len(text) }

\* text.includes(term), given grams = Grams(text): a term whose first three
\* characters occur nowhere in text is not searched for
IncludesQuick(text, grams, term) ==
    /\ term = "" \/ Clip(term, 1, 3) \in grams
    /\ Includes(text, term)

\* vocabulary.filter(term => lowerText.includes(term.toLowerCase()))
FilterIncluded(vocabulary, lowerText) ==
    LET grams == Grams(lowerText)
    IN  SelectSeq(vocabulary, LAMBDA term : IncludesQuick(lowerText, grams, ToLowerCase(term)))

\* the matches of the patterns with a match equal to an earlier one left out
RECURSIVE ExtractMetricsDeduped(_, _)
ExtractMetricsDeduped(text, p) ==
    IF p = 0 THEN <<>>
    ELSE Dedupe(ExtractMetricsDeduped(text, p - 1) \o StringMatch(text, p).matches)

\* METRICS_PATTERNS.forEach(pattern => metrics.push(...text.match(pattern)))
RECURSIVE ExtractMetrics(_, _)
ExtractMetrics(text, p) ==
    IF p = 0 THEN <<>> ELSE ExtractMetrics(text, p - 1) \o StringMatch(text, p).matches

\* experienceIndicators tested with if (lowerText.indexOf(indicator)): an index of
\* -1 is truthy, an index of 0 is not
ExperienceIndexOf(lowerText) ==
    SelectSeq(experienceIndicators,
              LAMBDA indicator : Clip(lowerText, 1, Len(indicator)) # indicator)

\* experienceIndicators.forEach(indicator => { if (lowerText.includes(indicator)) ... })
Experience(lowerText) == FilterIncluded(experienceIndicators, lowerText)

parseResumeText(text) ==
    LET lowerText == ToLowerCase(text)
        skills    == FilterIncluded(TECH_SKILLS, lowerText)
    IN  [ rawText        |-> text,
          skills         |-> skills,
          experience     |-> Experience(lowerText),
          education      |-> FilterIncluded(educationKeywords, lowerText),
          certifications |-> FilterIncluded(certKeywords, lowerText),
          keywords       |-> skills \o FilterIncluded(ACTION_VERBS, lowerText),
          metrics        |-> ExtractMetrics(text, NumPatterns) ]

-----------------------------------------------------------------------------
(* analyzeResumeForJob                                                     *)

\* the share of the target that is missing, in place of the share that matches
MatchRatioMissing(count, total) ==
    IF total > 0 THEN [num |-> total - count, den |-> total] ELSE [num |-> 1, den |-> 2]

\* count / total with a default of 0 when total is 0
MatchRatioZero(count, total) ==
    IF total > 0 THEN [num |-> count, den |-> total] ELSE [num |-> 0, den |-> 1]

\* count / total, or the default 0.5 when total is 0
MatchRatio(count, total) ==
    IF total > 0 THEN [num |-> count, den |-> total] ELSE [num |-> 1, den |-> 2]

\* Math.floor(num / den) in place of Math.round
MathFloor(num, den) == num \div den

\* Math.round(num / den) for num >= 0 and den > 0: halves round up.  The code
\* rounds an IEEE double; the double and the exact quotient round alike for
\* every ratio over fewer than 28 target keywords.
MathRound(num, den) == (2 * num + den) \div (2 * den)

Min(a, b) == IF a < b THEN a ELSE b

Max(a, b) == IF a > b THEN a ELSE b

\* the entries of b in lower case
LowerSet(b) == { ToLowerCase(b[i]) : i \in 1..Len(b) }

\* the filter below, cut to its first 10 entries
FilterInFirstTen(a, b) ==
    LET lower == LowerSet(b)
    IN  Slice(SelectSeq(a, LAMBDA x : ToLowerCase(x) \in lower), 10)

\* a.filter(x => b.some(y => y.toLowerCase() === x.toLowerCase()))
FilterIn(a, b) ==
    LET lower == LowerSet(b)
    IN  SelectSeq(a, LAMBDA x : ToLowerCase(x) \in lower)

\* a.filter(x => !b.some(y => y.toLowerCase() === x.toLowerCase()))
FilterNotIn(a, b) ==
    LET lower == LowerSet(b)
    IN  SelectSeq(a, LAMBDA x : ToLowerCase(x) \notin lower)

\* the keywords with the job terms ahead of the skill vocabulary
extractKeywordsTermsFirst(text) ==
    Dedupe(FilterIncluded(jobTerms, text) \o FilterIncluded(TECH_SKILLS, text))

extractKeywordsFromText(text) ==
    Dedupe(FilterIncluded(TECH_SKILLS, text) \o FilterIncluded(jobTerms, text))

\* `${jobTitle} ${jobDescription} ${jobRequirements.join(' ')}`.toLowerCase()
JobText(jobTitle, jobDescription, jobRequirements) ==
    ToLowerCase(jobTitle \o " " \o jobDescription \o " " \o Join(jobRequirements, " "))

\* ACTION_VERBS.some(verb => resumeText.includes(verb))
HasActionVerbs(resumeText) ==
    LET grams == Grams(resumeText)
    IN  \E i \in 1..Len(ACTION_VERBS) : IncludesQuick(resumeText, grams, ACTION_VERBS[i])

\* the five signals with the weights of the two ratios exchanged
RawScoreSwapped(skillMatchRatio, keywordMatchRatio, hasMetrics, hasActionVerbs, hasCertifications) ==
    LET bonus == (IF hasMetrics THEN 15 ELSE 0) + (IF hasActionVerbs THEN 10 ELSE 0)
                 + (IF hasCertifications THEN 5 ELSE 0)
        den   == skillMatchRatio.den * keywordMatchRatio.den
        num   == 30 * skillMatchRatio.num * keywordMatchRatio.den
                 + 40 * keywordMatchRatio.num * skillMatchRatio.den
                 + bonus * den
    IN  MathRound(num, den)

\* the unclamped Math.round(...) of the five weighted signals
RawScore(skillMatchRatio, keywordMatchRatio, hasMetrics, hasActionVerbs, hasCertifications) ==
    LET bonus == (IF hasMetrics THEN 15 ELSE 0) + (IF hasActionVerbs THEN 10 ELSE 0)
                 + (IF hasCertifications THEN 5 ELSE 0)
        den   == skillMatchRatio.den * keywordMatchRatio.den
        num   == 40 * skillMatchRatio.num * keywordMatchRatio.den
                 + 30 * keywordMatchRatio.num * skillMatchRatio.den
                 + bonus * den
    IN  MathRound(num, den)

\* the score as computed: the clamp left out
Unclamped(score) == score

\* Math.max(0, Math.min(100, resumeScore))
ClampScore(score) == Max(0, Min(100, score))

\* the strengths with the keyword message pushed first
StrengthsFoundKeywordsFirst(resume, matchingSkills, matchingKeywords, hasActionVerbs) ==
    (IF Len(matchingKeywords) >= 5
     THEN << "Strong keyword alignment with job description" >> ELSE <<>>)
    \o (IF Len(matchingSkills) >= 3
        THEN << "Strong technical skill alignment (" \o NumberToString(Len(matchingSkills))
                \o " matching skills)" >>
        ELSE <<>>)
    \o (IF Len(resume.metrics) >= 2
        THEN << "Good use of quantifiable metrics and achievements" >> ELSE <<>>)
    \o (IF hasActionVerbs
        THEN << "Effective use of action verbs to describe accomplishments" >> ELSE <<>>)
    \o (IF Len(resume.certifications) > 0
        THEN << "Relevant certifications found (" \o Join(resume.certifications, ", ") \o ")" >>
        ELSE <<>>)

StrengthsFound(resume, matchingSkills, matchingKeywords, hasActionVerbs) ==
    (IF Len(matchingSkills) >= 3
     THEN << "Strong technical skill alignment (" \o NumberToString(Len(matchingSkills))
             \o " matching skills)" >>
     ELSE <<>>)
    \o (IF Len(resume.metrics) >= 2
        THEN << "Good use of quantifiable metrics and achievements" >> ELSE <<>>)
    \o (IF hasActionVerbs
        THEN << "Effective use of action verbs to describe accomplishments" >> ELSE <<>>)
    \o (IF Len(resume.certifications) > 0
        THEN << "Relevant certifications found (" \o Join(resume.certifications, ", ") \o ")" >>
        ELSE <<>>)
    \o (IF Len(matchingKeywords) >= 5
        THEN << "Strong keyword alignment with job description" >> ELSE <<>>)

\* the improvement areas with the action verb rule ahead of the metrics rule
ImprovementAreasVerbsFirst(resume, missingSkills, missingKeywords, hasActionVerbs) ==
    (IF Len(missingSkills) > 0
     THEN << "Add these in-demand skills if you have them: "
             \o Join(Slice(missingSkills, 4), ", ") >>
     ELSE <<>>)
    \o (IF ~ hasActionVerbs
        THEN << "Start bullet points with strong action verbs (Led, Developed, Achieved, etc.)" >>
        ELSE <<>>)
    \o (IF Len(resume.metrics) < 2
        THEN << "Include more quantifiable achievements (percentages, dollar amounts, user counts)" >>
        ELSE <<>>)
    \o (IF Len(missingKeywords) > 3
        THEN << "Consider incorporating these keywords: "
                \o Join(Slice(missingKeywords, 4), ", ") >>
        ELSE <<>>)

ImprovementAreas(resume, missingSkills, missingKeywords, hasActionVerbs) ==
    (IF Len(missingSkills) > 0
     THEN << "Add these in-demand skills if you have them: "
             \o Join(Slice(missingSkills, 4), ", ") >>
     ELSE <<>>)
    \o (IF Len(resume.metrics) < 2
        THEN << "Include more quantifiable achievements (percentages, dollar amounts, user counts)" >>
        ELSE <<>>)
    \o (IF ~ hasActionVerbs
        THEN << "Start bullet points with strong action verbs (Led, Developed, Achieved, etc.)" >>
        ELSE <<>>)
    \o (IF Len(missingKeywords) > 3
        THEN << "Consider incorporating these keywords: "
                \o Join(Slice(missingKeywords, 4), ", ") >>
        ELSE <<>>)

\* the suggestions with only the first word of each pair looked for
MetricsSuggestionsFirstWord(jobText) ==
    (IF Includes(jobText, "team")
     THEN << "Add team size you've managed or collaborated with (e.g., \"Led a team of 8 engineers\")" >>
     ELSE <<>>)
    \o (IF Includes(jobText, "performance")
        THEN << "Include performance improvements (e.g., \"Improved load time by 40%\")" >>
        ELSE <<>>)
    \o (IF Includes(jobText, "revenue")
        THEN << "Add business impact metrics (e.g., \"Reduced costs by $50K annually\")" >>
        ELSE <<>>)
    \o (IF Includes(jobText, "user")
        THEN << "Include user/customer impact (e.g., \"Served 100K+ daily active users\")" >>
        ELSE <<>>)
    \o (IF Includes(jobText, "project")
        THEN << "Mention project delivery metrics (e.g., \"Delivered 15 features ahead of schedule\")" >>
        ELSE <<>>)

MetricsSuggestions(jobText) ==
    (IF Includes(jobText, "team") \/ Includes(jobText, "lead")
     THEN << "Add team size you've managed or collaborated with (e.g., \"Led a team of 8 engineers\")" >>
     ELSE <<>>)
    \o (IF Includes(jobText, "performance") \/ Includes(jobText, "optimization")
        THEN << "Include performance improvements (e.g., \"Improved load time by 40%\")" >>
        ELSE <<>>)
    \o (IF Includes(jobText, "revenue") \/ Includes(jobText, "cost")
        THEN << "Add business impact metrics (e.g., \"Reduced costs by $50K annually\")" >>
        ELSE <<>>)
    \o (IF Includes(jobText, "user") \/ Includes(jobText, "customer")
        THEN << "Include user/customer impact (e.g., \"Served 100K+ daily active users\")" >>
        ELSE <<>>)
    \o (IF Includes(jobText, "project") \/ Includes(jobText, "delivery")
        THEN << "Mention project delivery metrics (e.g., \"Delivered 15 features ahead of schedule\")" >>
        ELSE <<>>)

\* the bands with > in place of >=
ResumeFeedbackStrict(resumeScore) ==
    IF resumeScore > 80
    THEN "Excellent match! Your resume aligns very well with this position. Focus on tailoring your cover letter to stand out."
    ELSE IF resumeScore > 60
    THEN "Good match with room for improvement. Consider highlighting the matching skills more prominently and addressing the missing keywords."
    ELSE IF resumeScore > 40
    THEN "Moderate match. You may need to emphasize transferable skills and add more relevant keywords to strengthen your application."
    ELSE "This role may require significant resume tailoring. Focus on highlighting any relevant experience and consider gaining the missing skills."

ResumeFeedback(resumeScore) ==
    IF resumeScore >= 80
    THEN "Excellent match! Your resume aligns very well with this position. Focus on tailoring your cover letter to stand out."
    ELSE IF resumeScore >= 60
    THEN "Good match with room for improvement. Consider highlighting the matching skills more prominently and addressing the missing keywords."
    ELSE IF resumeScore >= 40
    THEN "Moderate match. You may need to emphasize transferable skills and add more relevant keywords to strengthen your application."
    ELSE "This role may require significant resume tailoring. Focus on highlighting any relevant experience and consider gaining the missing skills."

analyzeResumeForJob(resume, jobTitle, jobDescription, jobRequirements) ==
    LET jobText          == JobText(jobTitle, jobDescription, jobRequirements)
        resumeText       == ToLowerCase(resume.rawText)
        jobSkills        == FilterIncluded(TECH_SKILLS, jobText)
        matchingSkills   == FilterIn(resume.skills, jobSkills)
        missingSkills    == FilterNotIn(jobSkills, resume.skills)
        jobKeywords      == extractKeywordsFromText(jobText)
        resumeKeywords   == extractKeywordsFromText(resumeText)
        matchingKeywords == FilterIn(resumeKeywords, jobKeywords)
        missingKeywords  == Slice(FilterNotIn(jobKeywords, resumeKeywords), 8)
        skillMatchRatio  == MatchRatio(Len(matchingSkills), Len(jobSkills))
        keywordMatchRatio == MatchRatio(Len(matchingKeywords), Len(jobKeywords))
        hasMetrics       == Len(resume.metrics) > 0
        hasActionVerbs   == HasActionVerbs(resumeText)
        resumeScore      == ClampScore(RawScore(skillMatchRatio, keywordMatchRatio, hasMetrics,
                                                hasActionVerbs, Len(resume.certifications) > 0))
    IN  [ resumeScore        |-> resumeScore,
          matchingKeywords   |-> Slice(Dedupe(matchingKeywords), 10),
          missingKeywords    |-> Slice(Dedupe(missingKeywords), 8),
          matchingSkills     |-> Dedupe(matchingSkills),
          missingSkills      |-> Slice(Dedupe(missingSkills), 6),
          strengthsFound     |-> Slice(StrengthsFound(resume, matchingSkills, matchingKeywords,
                                                      hasActionVerbs), 4),
          improvementAreas   |-> Slice(ImprovementAreas(resume, missingSkills, missingKeywords,
                                                        hasActionVerbs), 4),
          metricsSuggestions |-> Slice(MetricsSuggestions(jobText), 3),
          keywordDensity     |-> MathRound(100 * keywordMatchRatio.num, keywordMatchRatio.den),
          overallFeedback    |-> ResumeFeedback(resumeScore) ]

-----------------------------------------------------------------------------
(* analyzeLinkedInProfile                                                  *)

\* String.prototype.trim
Trim(s) ==
    LET keep == { i \in 1..Len(s) : ~ IsSpace(CharAt(s, i)) }
    IN  IF keep = {} THEN ""
        ELSE SubSeq(s, CHOOSE i \in keep : \A k \in keep : i <= k,
                       CHOOSE j \in keep : \A k \in keep : k <= j)

\* s.split(' ')
Split(s) ==
    LET cuts   == { i \in 1..Len(s) : CharAt(s, i) = " " } \cup {0, Len(s) + 1}
        cut(k) == CHOOSE c \in cuts : Cardinality({ b \in cuts : b < c }) = k - 1
    IN  [ k \in 1..(Cardinality(cuts) - 1) |-> Clip(s, cut(k) + 1, cut(k + 1) - 1) ]

\* the value a caller passes when it supplies no resumeAnalysis
NoAnalysis == [ supplied |-> FALSE ]

\* a resumeAnalysis as analyzeLinkedInProfile receives it
Supplied(result) == result @@ [ supplied |-> TRUE ]

\* hasProfile = linkedinUrl && linkedinUrl.length > 0: trim() left out
HasProfileUntrimmed(linkedinUrl) == linkedinUrl # ""

\* hasProfile = linkedinUrl && linkedinUrl.trim().length > 0
HasProfile(linkedinUrl) == linkedinUrl # "" /\ Len(Trim(linkedinUrl)) > 0

\* the urlIndicators with '/in/' looked for in linkedinUrl as typed
CompletenessScoreCaseSensitive(linkedinUrl) ==
    25 * ((IF Includes(linkedinUrl, "/in/") THEN 1 ELSE 0) + (IF Len(linkedinUrl) > 30 THEN 1 ELSE 0))

\* the two urlIndicators that hold, times 25
CompletenessScore(linkedinUrl) ==
    LET urlLower == ToLowerCase(linkedinUrl)
    IN  25 * ((IF Includes(urlLower, "/in/") THEN 1 ELSE 0) + (IF Len(urlLower) > 30 THEN 1 ELSE 0))

LinkedinScore(linkedinUrl, resumeAnalysis) ==
    IF HasProfile(linkedinUrl)
    THEN LET base == Min(100, 50 + CompletenessScore(linkedinUrl))
         IN  IF resumeAnalysis.supplied
             THEN MathRound(base + resumeAnalysis.resumeScore, 2)
             ELSE base
    ELSE 50

HeadlineSuggestion(jobTitle, resumeAnalysis) ==
    LET jobRole == Join(SliceLast(Split(jobTitle), 2), " ")
    IN  IF resumeAnalysis.supplied /\ Len(resumeAnalysis.matchingSkills) > 0
        THEN jobRole \o " | " \o Join(Slice(resumeAnalysis.matchingSkills, 2), " & ")
             \o " | Open to Opportunities"
        ELSE jobRole \o " | Experienced Professional | Always Learning"

SummaryFeedback(hasProfile, headlineSuggestion) ==
    IF ~ hasProfile
    THEN << "Create or complete your LinkedIn profile with a professional photo and comprehensive headline",
            "Add a compelling summary highlighting your career goals and key achievements" >>
    ELSE << "Update your headline to match this role: " \o headlineSuggestion,
            "Include specific accomplishments and metrics in your summary section",
            "Mention industry experience and key projects you've worked on" >>

LinkedinImprovements ==
    << "Add detailed job descriptions with quantifiable results",
       "Get endorsements for skills matching this job role",
       "Ask colleagues for recommendations highlighting your strengths",
       "Include any relevant certifications and courses",
       "Show volunteer work or open source contributions if applicable" >>

MissingProfileFeedback ==
    "LinkedIn profile is missing or incomplete. A complete profile significantly improves your visibility to recruiters."

LinkedinFeedback(hasProfile, linkedinScore) ==
    IF ~ hasProfile THEN MissingProfileFeedback
    ELSE IF linkedinScore >= 80
    THEN "Excellent LinkedIn profile! Keep it updated and consistent with your resume."
    ELSE IF linkedinScore >= 60
    THEN "Good LinkedIn foundation. Add more specific accomplishments and get skill endorsements."
    ELSE "Your LinkedIn profile needs attention. Update it with recent experience and stronger positioning."

analyzeLinkedInProfile(linkedinUrl, jobTitle, jobDescription, jobRequirements, resumeAnalysis) ==
    LET hasProfile    == HasProfile(linkedinUrl)
        jobText       == JobText(jobTitle, jobDescription, jobRequirements)
        jobSkills     == FilterIncluded(TECH_SKILLS, jobText)
        linkedinScore == LinkedinScore(linkedinUrl, resumeAnalysis)
        headlineSuggestion == HeadlineSuggestion(jobTitle, resumeAnalysis)
        endorsementSuggestions ==
            IF resumeAnalysis.supplied THEN Slice(resumeAnalysis.matchingSkills, 5)
            ELSE Slice(jobSkills, 5)
        skillGaps ==
            IF resumeAnalysis.supplied THEN Slice(resumeAnalysis.missingSkills, 4)
            ELSE Slice(jobSkills, 4)
    IN  [ linkedinScore          |-> linkedinScore,
          headlineSuggestion     |-> headlineSuggestion,
          summaryFeedback        |-> Slice(SummaryFeedback(hasProfile, headlineSuggestion), 3),
          endorsementSuggestions |-> Dedupe(endorsementSuggestions),
          skillGaps              |-> Dedupe(skillGaps),
          improvements           |-> LinkedinImprovements,
          overallFeedback        |-> LinkedinFeedback(hasProfile, linkedinScore) ]

-----------------------------------------------------------------------------
(* Inputs: resume texts, job postings and profile references               *)

\* the most lines of the sample resume a resume text holds
MaxResumeLines == 2

\* the most entries a requirements list holds
MaxRequirements == 2

ResumeLines ==
    << "Jane Doe",
       "Led Python/Docker work: 40%, 3x, 500+ users",
       "AWS Certified, built Go Git SQL CSS Java React, SaaS startup",
       "i use react and react.js",
       "I use REACT and React.js",
       "2 years, 10 projects, $5,000, 10% and 10%" >>

RequirementLines ==
    << "Rust Ruby PHP Swift Kotlin Vue, remote hybrid contract, cost, user, project, performance",
       "Kubernetes",
       "Python and Docker",
       "Go Git SQL CSS Java React AWS, SaaS startup",
       "Customer delivery" >>

\* the empty run and the runs of 1..max consecutive entries of lines
Runs(lines, max) ==
    { <<>> } \cup
    { SubSeq(lines, w[1], w[1] + w[2] - 1) :
        w \in { v \in (1..Len(lines)) \X (1..max) : v[1] + v[2] - 1 <= Len(lines) } }

\* the texts handed to parseResumeText
ResumeTexts == { Join(r, "\n") : r \in Runs(ResumeLines, MaxResumeLines) }

Postings ==
    { [jobTitle |-> "", jobDescription |-> ""],
      [jobTitle |-> "Senior Backend Engineer", jobDescription |-> "Lead a team"] }

\* the (jobTitle, jobDescription, jobRequirements) handed to the two scorers
Jobs ==
    { [jobTitle |-> p.jobTitle, jobDescription |-> p.jobDescription, jobRequirements |-> r] :
        p \in Postings, r \in Runs(RequirementLines, MaxRequirements) }

\* skills a caller may add to a profile before scoring it
ExtraSkills == { "docker" }

LinkedinUrls ==
    { "", "  ", "jane-doe", "linkedin.com/IN/jane",
      "https://www.linkedin.com/pub/jane-doe", "https://www.linkedin.com/in/jane-doe" }

\* resume with one more entry in skills
WithSkill(resume, skill) == [resume EXCEPT !.skills = Append(@, skill)]

-----------------------------------------------------------------------------
(* The functions over the inputs above                                     *)

parseResumeTextOf == [ text \in ResumeTexts |-> parseResumeText(text) ] @@ <<>>

\* lastIndex of every pattern once parseResumeText(text) has returned
lastIndexAfter == [ text \in ResumeTexts |-> [ p \in 1..NumPatterns |-> StringMatch(text, p).lastIndex ] ] @@ <<>>

\* the profiles handed to analyzeResumeForJob
Profiles ==
    { parseResumeTextOf[t] : t \in ResumeTexts }
    \cup { WithSkill(parseResumeTextOf[t], s) : t \in ResumeTexts, s \in ExtraSkills }

analyzeResumeForJobOf ==
    [ c \in Profiles \X Jobs |->
        analyzeResumeForJob(c[1], c[2].jobTitle, c[2].jobDescription, c[2].jobRequirements) ] @@ <<>>

\* the results of analyzeLinkedInProfile when no resumeAnalysis is passed
analyzeLinkedInProfileOf ==
    [ c \in LinkedinUrls \X Jobs |->
        analyzeLinkedInProfile(c[1], c[2].jobTitle, c[2].jobDescription, c[2].jobRequirements,
                               NoAnalysis) ] @@ <<>>

-----------------------------------------------------------------------------
(* The search handlers: values, vocabularies and the jobs they generate     *)

\* the values a field of a JSON request body holds
Undefined == [ type |-> "undefined" ]

Str(s) == [ type |-> "string", value |-> s ]

\* ToBoolean of such a value
Truthy(v) ==
    CASE v.type = "string" -> v.value # ""
      [] v.type = "number" -> v.number # 0
      [] OTHER -> FALSE

\* v && v.trim().length > 0, for undefined and for strings
NonBlank(v) == Truthy(v) /\ Len(Trim(v.value)) > 0

\* the names of JOB_SOURCES, in order
JOB_SOURCES ==
    << "LinkedIn", "Indeed", "Glassdoor", "Google Jobs", "Fortune 500 Companies",
       "Tech Startups", "Remote Job Boards", "Staffing Agencies" >>

commonKeywords ==
    << "software", "engineer", "developer", "manager", "designer", "analyst",
       "data", "product", "marketing", "sales", "frontend", "backend", "fullstack",
       "react", "python", "javascript", "typescript", "java", "go", "rust",
       "machine learning", "ai", "ml", "devops", "cloud", "aws", "azure", "gcp",
       "senior", "junior", "lead", "principal", "staff", "remote", "hybrid" >>

\* commonKeywords.filter(kw => lowerDesc.includes(kw))
extractKeywords(description) ==
    LET lowerDesc == ToLowerCase(description)
    IN  SelectSeq(commonKeywords, LAMBDA kw : Includes(lowerDesc, kw))

levels == << "Junior", "Mid-Level", "Senior", "Staff", "Principal", "Lead", "Head of" >>

roles ==
    << "Software Engineer", "Full Stack Developer", "Frontend Engineer", "Backend Engineer",
       "Data Scientist", "Data Engineer", "ML Engineer", "DevOps Engineer",
       "Site Reliability Engineer", "Product Manager", "Engineering Manager",
       "Technical Program Manager", "Solutions Architect", "UI/UX Designer",
       "Product Designer", "Data Analyst", "Business Analyst", "Cloud Architect" >>

\* generateJobTitle: draw.role and draw.level are the indices Math.random picks,
\* draw.coin the tenths of the Math.random() compared with 0.5
generateJobTitle(keywords, draw) ==
    LET has(kw) == Contains(keywords, kw)
        level1 == IF has("senior") THEN "Senior" ELSE levels[draw.level]
        level2 == IF has("junior") THEN "Junior" ELSE level1
        level3 == IF has("lead") THEN "Lead" ELSE level2
        role1  == IF has("frontend") THEN "Frontend Engineer" ELSE roles[draw.role]
        role2  == IF has("backend") THEN "Backend Engineer" ELSE role1
        role3  == IF has("fullstack") THEN "Full Stack Developer" ELSE role2
        role4  == IF has("data")
                  THEN (IF draw.coin > 5 THEN "Data Scientist" ELSE "Data Engineer")
                  ELSE role3
        role5  == IF has("ml") \/ has("machine learning") THEN "ML Engineer" ELSE role4
        role6  == IF has("devops") THEN "DevOps Engineer" ELSE role5
        role7  == IF has("product") /\ has("manager") THEN "Product Manager" ELSE role6
        role8  == IF has("designer") THEN "Product Designer" ELSE role7
    IN  level3 \o " " \o role8

\* generateRequirements: [...baseRequirements, ...techRequirements].slice(0, 6)
generateRequirements(keywords) ==
    LET has(kw) == Contains(keywords, kw)
        baseRequirements ==
            << "Bachelor's degree in Computer Science or related field",
               "Strong problem-solving and analytical skills",
               "Excellent communication and collaboration abilities",
               "Experience working in agile development environments" >>
        techRequirements ==
            (IF has("react") \/ has("frontend")
             THEN << "3+ years of experience with React and modern JavaScript",
                     "Proficiency in TypeScript and CSS-in-JS solutions" >>
             ELSE <<>>)
            \o (IF has("python") \/ has("backend")
                THEN << "Strong Python skills with experience in Django or FastAPI",
                        "Database design experience with PostgreSQL or MongoDB" >>
                ELSE <<>>)
            \o (IF has("aws") \/ has("cloud")
                THEN << "AWS certification or equivalent cloud platform experience",
                        "Experience with infrastructure as code (Terraform, CloudFormation)" >>
                ELSE <<>>)
            \o (IF has("ml") \/ has("data")
                THEN << "Experience with ML frameworks (PyTorch, TensorFlow, scikit-learn)",
                        "Strong statistical analysis and data visualization skills" >>
                ELSE <<>>)
    IN  Slice(baseRequirements \o techRequirements, 6)

\* Math.ceil(num / den) for num >= 0 and den > 0
MathCeil(num, den) == (num + den - 1) \div den

\* jobsPerSource = Math.ceil(50 / JOB_SOURCES.length)
jobsPerSource == MathCeil(50, Len(JOB_SOURCES))

\* no value, and a value, of an optional local or field
Absent == [ defined |-> FALSE ]

Present(value) == [ defined |-> TRUE, value |-> value ]

\* Math.floor(Math.random() * 30) + 70, with u10 the tenths of Math.random() * 30
RandomScore(u10) == MathFloor(u10, 10) + 70

\* Math.max(40, Math.min(99, Math.round(resumeScore * 0.7 + Math.random() * 30)))
ResumeMatchScore(resumeScore, u10) == Max(40, Min(99, MathRound(7 * resumeScore + u10, 10)))

\* one turn of the loop of generateJobsForSource, the job's number left out:
\* draw holds what Math.random picks.  location, salary, type, postedDate,
\* applicationUrl, resumeFeedback and linkedInFeedback are left out.
GeneratePosting(description, draw, parsedResume, linkedinUrl) ==
    LET keywords       == extractKeywords(description)
        company        == draw.company
        title          == generateJobTitle(keywords, draw)
        requirements   == generateRequirements(keywords)
        jobDescription == "We are looking for a talented " \o title \o " to join our team at "
                          \o company \o ". You will work on cutting-edge projects and collaborate with world-class engineers to build products that impact millions of users."
        withResume     == parsedResume.defined /\ Len(parsedResume.value.rawText) > 0
        Posting(resumeAnalysis) ==
            [ title            |-> title,
              company          |-> company,
              description      |-> jobDescription,
              requirements     |-> requirements,
              matchScore       |-> IF withResume
                                   THEN ResumeMatchScore(resumeAnalysis.resumeScore, draw.u10)
                                   ELSE RandomScore(draw.u10),
              resumeAnalysis   |-> resumeAnalysis,
              linkedinAnalysis |-> IF NonBlank(linkedinUrl)
                                   THEN Present(analyzeLinkedInProfile(linkedinUrl.value, title,
                                                    jobDescription, requirements, resumeAnalysis))
                                   ELSE Absent ]
    IN  Posting(IF withResume
                    THEN Supplied(analyzeResumeForJob(parsedResume.value, title, jobDescription,
                                                  requirements))
                ELSE NoAnalysis)

\* what Math.random picks in one turn of the loop
DrawList ==
    << [ company |-> "Google", level |-> 1, role |-> 1,  coin |-> 3, u10 |-> 0 ],
       [ company |-> "Stripe", level |-> 2, role |-> 5,  coin |-> 7, u10 |-> 155 ],
       [ company |-> "Notion", level |-> 6, role |-> 18, coin |-> 5, u10 |-> 299 ] >>

\* the picks of the turns of one call that generates count jobs
DrawsFor(count) ==
    { [ j \in 1..count |-> DrawList[((j + k) % Len(DrawList)) + 1] ] : k \in 0..1 }

\* the description typed into the form
SearchDescription == "Senior Python backend engineer, remote"

\* the resume a file holds
SearchResume == ResumeLines[2]

SearchLinkedinUrl == "https://www.linkedin.com/in/jane-doe"

\* the values of linkedinUrl in the bodies the handlers are sent
LinkedinUrlValues == { Undefined, Str("  "), Str(SearchLinkedinUrl),
                       [ type |-> "number", number |-> 5 ] }

\* the postings generated for the descriptions, picks, resumes and profile
\* references above
generatedPostingOf ==
    [ c \in { SearchDescription }
            \X { DrawList[k] : k \in 1..Len(DrawList) }
            \X { Absent, Present(parseResumeTextOf[SearchResume]) }
            \X { v \in LinkedinUrlValues : v.type # "number" } |->
        GeneratePosting(c[1], c[2], c[3], c[4]) ] @@ <<>>

\* generateJobsForSource(description, source, startIndex, count, parsedResume,
\* linkedinUrl): the job of turn i has the id `job-${startIndex + i + 1}-${Date.now()}`,
\* kept here as its number; jobs of different numbers have different ids
generateJobsForSource(description, source, startIndex, count, parsedResume, linkedinUrl, draws) ==
    [ i \in 1..count |->
        [ id |-> startIndex + i, source |-> source ]
        @@ generatedPostingOf[<<description, draws[i], parsedResume, linkedinUrl>>] ]

\* linkedinUrl && linkedinUrl.trim(), reached in the first turn of the loop,
\* throws a TypeError when linkedinUrl is a truthy value without trim
GenerateThrows(linkedinUrl) == Truthy(linkedinUrl) /\ linkedinUrl.type # "string"

\* generateJobs(description, count) of the handler without a stream: the job of
\* turn i comes from JOB_SOURCES[i % JOB_SOURCES.length] with a random score,
\* and the jobs are sorted by score
PlainJob(description, i, draw) ==
    LET keywords == extractKeywords(description)
    IN  [ id         |-> i,
          source     |-> JOB_SOURCES[((i - 1) % Len(JOB_SOURCES)) + 1],
          title      |-> generateJobTitle(keywords, draw),
          company    |-> draw.company,
          matchScore |-> RandomScore(draw.u10) ]

\* the jobs in the order they were generated
Unsorted(jobs) == jobs

\* jobs.sort((a, b) => b.matchScore - a.matchScore): the sort is stable
SortByScore(jobs) ==
    LET before(list, a, b) ==
            \/ list[a].matchScore > list[b].matchScore
            \/ list[a].matchScore = list[b].matchScore /\ a < b
        Ranks(list) ==
            [ a \in 1..Len(list) |->
                1 + Cardinality({ b \in 1..Len(list) : before(list, b, a) }) ] @@ <<>>
        Placed(list, rank) ==
            [ k \in 1..Len(list) |-> list[CHOOSE a \in 1..Len(list) : rank[a] = k] ] @@ <<>>
        Ranked(list) == CHOOSE sorted \in { Placed(list, rank) : rank \in { Ranks(list) } } : TRUE
    IN  CHOOSE sorted \in { Ranked(list) : list \in { jobs } } : TRUE

generateJobs(description, count, draws) ==
    SortByScore([ i \in 1..count |-> PlainJob(description, i, draws[i]) ] @@ <<>>)

\* the jobs generateJobs returns for the description and the picks above
generateJobsOf ==
    [ c \in { SearchDescription } \X DrawsFor(50) |-> generateJobs(c[1], 50, c[2]) ] @@ <<>>

\* the events the stream handler writes, by JSON.stringify; sourceIcon is left out
InitialStatus(parsedResume) ==
    [ type           |-> "status",
      message        |-> IF parsedResume.defined
                         THEN "Analyzing resume and starting job search..."
                         ELSE "Starting job search...",
      progress       |-> 0,
      resumeDetected |-> parsedResume.defined ]

\* the status of source i with the progress rounded down
SourceStatusFloor(i) ==
    [ type             |-> "status",
      message          |-> "Searching " \o JOB_SOURCES[i + 1] \o "...",
      progress         |-> MathFloor(i * 100, Len(JOB_SOURCES)),
      currentSource    |-> JOB_SOURCES[i + 1],
      sourcesCompleted |-> i,
      totalSources     |-> Len(JOB_SOURCES) ]

\* i counts the sources from 0, as the loop does
SourceStatus(i) ==
    [ type             |-> "status",
      message          |-> "Searching " \o JOB_SOURCES[i + 1] \o "...",
      progress         |-> MathRound(i * 100, Len(JOB_SOURCES)),
      currentSource    |-> JOB_SOURCES[i + 1],
      sourcesCompleted |-> i,
      totalSources     |-> Len(JOB_SOURCES) ]

JobsEvent(i, sourceJobs, allJobs) ==
    [ type       |-> "jobs",
      source     |-> JOB_SOURCES[i + 1],
      jobs       |-> sourceJobs,
      totalFound |-> Len(allJobs) ]

CompleteEvent(allJobs) ==
    [ type         |-> "complete",
      message      |-> "Search complete!",
      progress     |-> 100,
      totalResults |-> Len(allJobs),
      jobs         |-> Slice(allJobs, 50) ]

ErrorEvent ==
    [ type |-> "error", message |-> "An error occurred while searching for jobs" ]

\* req.body[key]: undefined when the body has no such key
Field(body, key) == IF key \in DOMAIN body THEN body[key] ELSE Undefined

\* res.status(code).json(body): the answer of a handler that returns at once
Answer(route, req, code, body) ==
    [ route        |-> route,
      request      |-> req,
      pc           |-> "ended",
      statusCode   |-> code,
      headers      |-> <<>>,
      json         |-> Present(body),
      events       |-> <<>>,
      ended        |-> TRUE,
      parsedResume |-> Absent,
      allJobs      |-> <<>>,
      i            |-> 0 ]

\* the test of the request with trim() left out
RejectedUntrimmed(req) ==
    req.method # "POST" \/ ~ Truthy(Field(req.body, "jobDescription"))

\* the request is one the handlers answer 405 or 400
Rejected(req) ==
    req.method # "POST" \/ ~ NonBlank(Field(req.body, "jobDescription"))

\* the answer to such a request
Rejection(route, req) ==
    IF req.method # "POST"
    THEN Answer(route, req, 405, [ error |-> "Method not allowed" ])
    ELSE Answer(route, req, 400, [ error |-> "Job description is required" ])

\* the resume parsed from the body, if it has one
ParsedFrom(req) ==
    IF NonBlank(Field(req.body, "resumeText"))
    THEN Present(parseResumeTextOf[Field(req.body, "resumeText").value])
    ELSE Absent

\* the stream handler from its start to its first await: the request is
\* checked, the resume parsed, the headers set, the first two events written
BeginStream(req) ==
    IF Rejected(req) THEN Rejection("stream", req)
    ELSE [ route        |-> "stream",
           request      |-> req,
           pc           |-> "searching",
           statusCode   |-> 200,
           headers      |-> << "Content-Type", "Cache-Control", "Connection" >>,
           json         |-> Absent,
           events       |-> << InitialStatus(ParsedFrom(req)), SourceStatus(0) >>,
           ended        |-> FALSE,
           parsedResume |-> ParsedFrom(req),
           allJobs      |-> <<>>,
           i            |-> 0 ]

\* the stream handler from the end of a source's delay to its next await or to
\* its end: the source's jobs are generated and written, then the next source
\* is announced or the sorted jobs are written and the response ended
AfterSource(sv, draws) ==
    LET Ended(written, sorted) ==
            [sv EXCEPT !.allJobs = sorted,
                       !.events  = Append(written, CompleteEvent(sorted)),
                       !.i       = sv.i + 1,
                       !.ended   = TRUE,
                       !.pc      = "ended"]
        Pushed(sourceJobs, allJobs) ==
            IF sv.i + 1 < Len(JOB_SOURCES)
            THEN [sv EXCEPT !.allJobs = allJobs,
                            !.events  = Append(Append(sv.events, JobsEvent(sv.i, sourceJobs, allJobs)),
                                               SourceStatus(sv.i + 1)),
                            !.i       = sv.i + 1]
            ELSE CHOOSE next \in { Ended(Append(sv.events, JobsEvent(sv.i, sourceJobs, allJobs)), sorted) :
                                    sorted \in { SortByScore(allJobs) } } : TRUE
        WithJobs(sourceJobs) ==
            CHOOSE next \in { Pushed(sourceJobs, allJobs) : allJobs \in { sv.allJobs \o sourceJobs } } : TRUE
    IN  CHOOSE next \in { WithJobs(sourceJobs) :
                          sourceJobs \in { generateJobsForSource(
                              Field(sv.request.body, "jobDescription").value, JOB_SOURCES[sv.i + 1],
                              Len(sv.allJobs), jobsPerSource, sv.parsedResume,
                              Field(sv.request.body, "linkedinUrl"), draws) } } : TRUE

\* the catch block of the stream handler
AfterThrow(sv) ==
    [sv EXCEPT !.events = Append(sv.events, ErrorEvent), !.ended = TRUE, !.pc = "ended"]

\* the handler without a stream, from its start to its answer
PlainHandler(req, draws) ==
    IF Rejected(req) THEN Rejection("plain", req)
    ELSE LET jobs == generateJobsOf[<<Field(req.body, "jobDescription").value, draws>>]
         IN  [ Answer("plain", req, 200,
                      [ success      |-> TRUE,
                        totalResults |-> Len(jobs),
                        sources      |-> JOB_SOURCES,
                        jobs         |-> jobs ])
               EXCEPT !.allJobs = jobs ]

\* the requests sent to the handlers by callers other than the page
Requests ==
    { [ method |-> m,
        body   |-> [ jobDescription |-> d, resumeText |-> r, linkedinUrl |-> u ] ] :
        m \in { "GET", "POST" },
        d \in { Undefined, Str(""), Str("   "), Str(SearchDescription) },
        r \in { Undefined, Str("  "), Str(SearchResume) },
        u \in LinkedinUrlValues }

\* no request is being handled
NoRequest ==
    [ route        |-> "none",
      request      |-> Absent,
      pc           |-> "ended",
      statusCode   |-> 0,
      headers      |-> <<>>,
      json         |-> Absent,
      events       |-> <<>>,
      ended        |-> FALSE,
      parsedResume |-> Absent,
      allJobs      |-> <<>>,
      i            |-> 0 ]

-----------------------------------------------------------------------------
(* The search page: its state, the response it reads and how it reads it   *)

\* const jobsPerPage = 10
jobsPerPage == 10

\* the state of the page when it is first rendered; pc is where handleSubmit
\* stands, sent the body of its request, wire the texts of the events of the
\* response, read and inside how far the response has been read; expandedJob is
\* left out
Home ==
    [ jobDescription |-> "",
      linkedInUrl    |-> "",
      resumeFile     |-> Absent,
      isSubmitting   |-> FALSE,
      searchStatus   |-> Absent,
      jobs           |-> <<>>,
      showResults    |-> FALSE,
      currentPage    |-> 1,
      pc             |-> "idle",
      sent           |-> Absent,
      wire           |-> <<>>,
      read           |-> 0,
      inside         |-> FALSE,
      splits         |-> 0 ]

\* what is typed into the two fields of the form, and the files chosen: one
\* the FileReader reads and one it fails to read
FormDescriptions == { "", "   ", SearchDescription }

FormLinkedInUrls == { "", SearchLinkedinUrl }

Files == { [ text |-> SearchResume, readable |-> TRUE ],
           [ text |-> SearchResume, readable |-> FALSE ] }

\* JSON.stringify({ jobDescription, linkedInUrl, resumeText })
RequestBody(cl, resumeText) ==
    [ jobDescription |-> Str(cl.jobDescription),
      linkedInUrl    |-> Str(cl.linkedInUrl),
      resumeText     |-> Str(resumeText) ]

\* JSON.stringify of a job: a key whose value is undefined is not written
Stringified(job) ==
    [ key \in DOMAIN job \ ( (IF job.resumeAnalysis.supplied THEN {} ELSE { "resumeAnalysis" })
                             \cup (IF job.linkedinAnalysis.defined THEN {} ELSE { "linkedinAnalysis" }) )
        |-> IF key = "linkedinAnalysis" THEN job.linkedinAnalysis.value ELSE job[key] ]

\* JSON.stringify of an event: the text of one line after "data: "; whole says
\* that the text is all there
JSONstringify(event) ==
    [ whole |-> TRUE,
      json  |-> IF "jobs" \in DOMAIN event
                THEN [event EXCEPT !.jobs = [ k \in 1..Len(event.jobs) |-> Stringified(event.jobs[k]) ]]
                ELSE event ]

\* JSON.parse(text): throws on a text that is not all there
JSONparse(text) == IF text.whole THEN Present(text.json) ELSE Absent

\* what Math.random picks while the page's request is served
PageDraws == [ j \in 1..jobsPerSource |-> DrawList[(j % Len(DrawList)) + 1] ]

\* the stream handler run from sv to the end of the response
RECURSIVE Served(_)
Served(sv) ==
    IF sv.pc = "ended" THEN sv
    ELSE CHOOSE last \in { Served(next) : next \in { AfterSource(sv, PageDraws) } } : TRUE

\* the response to a POST of body: its ok flag and the texts of its events;
\* failing is the response the handler's catch block ends
ResponseTo(body, failing) ==
    LET Written(sv) ==
            [ ok   |-> sv.statusCode \in 200..299,
              wire |-> [ k \in 1..Len(sv.events) |-> JSONstringify(sv.events[k]) ] ]
        Begun(sv) ==
            CHOOSE response \in { Written(last) :
                                  last \in { IF sv.pc = "ended" THEN sv
                                             ELSE IF failing THEN AfterThrow(sv) ELSE Served(sv) } } : TRUE
    IN  CHOOSE response \in { Begun(sv) : sv \in { BeginStream([ method |-> "POST", body |-> body ]) } } : TRUE

\* the responses to the bodies the page sends
responseOf ==
    [ c \in { [ jobDescription |-> Str(d), linkedInUrl |-> Str(u), resumeText |-> Str(r) ] :
              d \in FormDescriptions \ { "" }, u \in FormLinkedInUrls, r \in { "", SearchResume } }
            \X BOOLEAN |->
        ResponseTo(c[1], c[2]) ] @@ <<>>

\* chunk.split('\n') of the chunk that takes the reading of wire from read
\* events (and, with inside, a part of the next line) to upto events (and,
\* with cut, a part of the line after them): the rest of a line begun in the
\* chunk before, the lines that are whole, the part of the line that is cut
Lines(wire, read, inside, upto, cut) ==
    LET first == IF inside THEN read + 2 ELSE read + 1
    IN  (IF inside
         THEN << [ startsWithData |-> FALSE, rest |-> [wire[read + 1] EXCEPT !.whole = FALSE] ] >>
         ELSE <<>>)
        \o [ k \in 1..(upto - first + 1) |->
               [ startsWithData |-> TRUE, rest |-> wire[first + k - 1] ] ]
        \o (IF cut
            THEN << [ startsWithData |-> TRUE, rest |-> [wire[upto + 1] EXCEPT !.whole = FALSE] ] >>
            ELSE <<>>)

\* the body of the loop over the lines: a line that does not start with
\* "data: " is passed over; JSON.parse throwing, and the throw for an event of
\* type error, are caught by the catch around the body
ApplyLine(cl, line) ==
    IF ~ line.startsWithData THEN cl
    ELSE LET data == JSONparse(line.rest)
         IN  IF ~ data.defined THEN cl
             ELSE IF data.value.type = "status"
             THEN [cl EXCEPT !.searchStatus = Present([ message  |-> data.value.message,
                                                        progress |-> data.value.progress ])]
             ELSE IF data.value.type = "jobs"
             THEN [cl EXCEPT !.jobs = cl.jobs \o data.value.jobs]
             ELSE IF data.value.type = "complete"
             THEN [cl EXCEPT !.searchStatus =
                                 Present([ message  |-> "Found " \o ToString(data.value.totalResults)
                                                        \o " matching jobs!",
                                           progress |-> 100 ]),
                             !.jobs = data.value.jobs]
             ELSE cl

\* for (const line of lines)
RECURSIVE ApplyLines(_, _)
ApplyLines(cl, lines) ==
    IF lines = <<>> THEN cl
    ELSE CHOOSE last \in { ApplyLines(next, rest) :
                           next \in { ApplyLine(cl, Head(lines)) }, rest \in { Tail(lines) } } : TRUE

\* finally: setIsSubmitting(false)
Finally(cl) ==
    [cl EXCEPT !.isSubmitting = FALSE, !.pc = "idle", !.sent = Absent, !.wire = <<>>,
               !.read = 0, !.inside = FALSE, !.splits = 0]

\* catch (error), then finally
Caught(cl) ==
    Finally([cl EXCEPT !.searchStatus = Present([ message  |-> "An error occurred. Please try again.",
                                                  progress |-> 0 ])])

\* const totalPages = Math.ceil(jobs.length / jobsPerPage)
totalPages(cl) == MathCeil(Len(cl.jobs), jobsPerPage)

\* showResults && !isSubmitting && jobs.length > 0: the results and the page
\* buttons are rendered
ResultsShown(cl) == cl.showResults /\ ~ cl.isSubmitting /\ Len(cl.jobs) > 0

\* the button disabled by an empty description alone
SubmitAlways(cl) == cl.jobDescription = ""

\* disabled={isSubmitting || !jobDescription}
SubmitDisabled(cl) == cl.isSubmitting \/ cl.jobDescription = ""

-----------------------------------------------------------------------------
(* Calls                                                                   *)

NoCall == [ called |-> FALSE ]

Init ==
    /\ lastIndex = [ p \in 1..NumPatterns |-> 0 ]
    /\ parsed = NoCall
    /\ prevParsed = NoCall
    /\ analysis = NoCall
    /\ prevAnalysis = NoCall
    /\ linkedin = NoCall
    /\ server = NoRequest
    /\ client = Home
    /\ heap = [ held |-> FALSE, objects |-> <<>>, results |-> <<>>, pushes |-> 0 ]

\* parseResumeText(text): the patterns are left as text.match leaves them, and
\* the results of earlier analyses are dropped by the caller
ParseResumeTextCall(text) ==
    /\ parsed' = [ called |-> TRUE, text |-> text, result |-> parseResumeTextOf[text] ]
    /\ lastIndex' = lastIndexAfter[text]
    /\ analysis' = NoCall
    /\ linkedin' = NoCall
    /\ UNCHANGED <<prevParsed, prevAnalysis, server, client, heap>>

\* the call with hasMetrics taken from METRICS_PATTERNS[0].test(resume.rawText): test
\* of a global pattern searches from its lastIndex and leaves it behind
AnalyzeResumeForJobCallTest(resume, job) ==
    LET exec == RegExpExec(resume.rawText, 1, lastIndex[1])
        seen == IF exec.found THEN resume ELSE [resume EXCEPT !.metrics = <<>>]
    IN  /\ analysis' = [ called |-> TRUE, resume |-> resume, job |-> job,
                         result |-> analyzeResumeForJob(seen, job.jobTitle, job.jobDescription,
                                                        job.jobRequirements) ]
        /\ lastIndex' = [lastIndex EXCEPT ![1] = exec.lastIndex]
        /\ linkedin' = NoCall
        /\ UNCHANGED <<parsed, prevParsed, prevAnalysis, server, client, heap>>

\* analyzeResumeForJob(resume, jobTitle, jobDescription, jobRequirements): no
\* module state is read or written
AnalyzeResumeForJobCall(resume, job) ==
    /\ analysis' = [ called |-> TRUE, resume |-> resume, job |-> job,
                     result |-> analyzeResumeForJobOf[<<resume, job>>] ]
    /\ linkedin' = NoCall
    /\ UNCHANGED <<lastIndex, parsed, prevParsed, prevAnalysis, server, client, heap>>

\* analyzeLinkedInProfile(linkedinUrl, jobTitle, jobDescription, jobRequirements,
\* resumeAnalysis): no module state is read or written
AnalyzeLinkedInProfileCall(linkedinUrl, job, resumeAnalysis) ==
    /\ linkedin' = [ called |-> TRUE, linkedinUrl |-> linkedinUrl, job |-> job,
                     resumeAnalysis |-> resumeAnalysis,
                     result |-> IF resumeAnalysis.supplied
                                THEN analyzeLinkedInProfile(linkedinUrl, job.jobTitle,
                                                            job.jobDescription, job.jobRequirements,
                                                            resumeAnalysis)
                                ELSE analyzeLinkedInProfileOf[<<linkedinUrl, job>>] ]
    /\ UNCHANGED <<lastIndex, parsed, prevParsed, analysis, prevAnalysis, server, client, heap>>

\* a caller parses a text
ParseStep == \E text \in ResumeTexts : ParseResumeTextCall(text)

\* a caller scores the profile it parsed against a posting
AnalyzeStep ==
    /\ parsed.called
    /\ \E job \in Jobs : AnalyzeResumeForJobCall(parsed.result, job)

\* a caller scores the profile it parsed, with one more skill entered
AnalyzeWithSkillStep ==
    /\ parsed.called
    /\ \E job \in Jobs, skill \in ExtraSkills :
         AnalyzeResumeForJobCall(WithSkill(parsed.result, skill), job)

\* a caller scores a profile reference: with the analysis it holds, for the same
\* posting, or without one
LinkedInStep ==
    \E linkedinUrl \in LinkedinUrls :
        \/ /\ analysis.called
           /\ AnalyzeLinkedInProfileCall(linkedinUrl, analysis.job, Supplied(analysis.result))
        \/ /\ ~ analysis.called
           /\ \E job \in Jobs : AnalyzeLinkedInProfileCall(linkedinUrl, job, NoAnalysis)

\* a caller keeps the profile it was returned
KeepParsed ==
    /\ parsed.called
    /\ prevParsed' = parsed
    /\ UNCHANGED <<lastIndex, parsed, analysis, prevAnalysis, linkedin, server, client, heap>>

\* a caller sets the analysis it was returned aside
KeepAnalysis ==
    /\ analysis.called
    /\ prevAnalysis' = analysis
    /\ analysis' = NoCall
    /\ UNCHANGED <<lastIndex, parsed, prevParsed, linkedin, server, client, heap>>

Next == ParseStep \/ AnalyzeStep \/ AnalyzeWithSkillStep \/ LinkedInStep

Spec == Init /\ [][Next]_vars

\* parseResumeText called again and again, an earlier result kept
NextParse == ParseStep \/ KeepParsed

SpecParse == Init /\ [][NextParse]_vars

\* the scorer called again and again, an earlier result kept
NextRepeat == ParseStep \/ AnalyzeStep \/ KeepAnalysis

SpecRepeat == Init /\ [][NextRepeat]_vars

-----------------------------------------------------------------------------
(* The search handlers at work                                              *)

\* what parseResumeText leaves behind when the handler parses the resume
ParsedBy(sv) ==
    IF sv.route = "stream" /\ sv.parsedResume.defined
    THEN /\ parsed' = [ called |-> TRUE, text |-> sv.parsedResume.value.rawText,
                        result |-> sv.parsedResume.value ]
         /\ lastIndex' = lastIndexAfter[sv.parsedResume.value.rawText]
    ELSE UNCHANGED <<parsed, lastIndex>>

\* the stream handler is called with req and runs to its first await
StreamRequest(req) ==
    /\ server.pc = "ended"
    /\ server' = BeginStream(req)
    /\ ParsedBy(BeginStream(req))
    /\ UNCHANGED <<prevParsed, analysis, prevAnalysis, linkedin, client, heap>>

\* the delay of a source is over: its jobs are generated and written
SourceSearched ==
    /\ server.route = "stream"
    /\ server.pc = "searching"
    /\ ~ GenerateThrows(Field(server.request.body, "linkedinUrl"))
    /\ \E draws \in DrawsFor(jobsPerSource) : server' = AfterSource(server, draws)
    /\ UNCHANGED <<lastIndex, parsed, prevParsed, analysis, prevAnalysis, linkedin, client, heap>>

\* the delay of a source is over and generating its jobs throws
SourceThrows ==
    /\ server.route = "stream"
    /\ server.pc = "searching"
    /\ GenerateThrows(Field(server.request.body, "linkedinUrl"))
    /\ server' = AfterThrow(server)
    /\ UNCHANGED <<lastIndex, parsed, prevParsed, analysis, prevAnalysis, linkedin, client, heap>>

\* the handler without a stream is called with req and answers
PlainRequest(req) ==
    /\ server.pc = "ended"
    /\ \E draws \in DrawsFor(50) : server' = PlainHandler(req, draws)
    /\ UNCHANGED <<lastIndex, parsed, prevParsed, analysis, prevAnalysis, linkedin, client, heap>>

NextSearch ==
    \/ \E req \in Requests : StreamRequest(req)
    \/ SourceSearched
    \/ SourceThrows
    \/ \E req \in Requests : PlainRequest(req)

SpecSearch == Init /\ [][NextSearch]_vars

-----------------------------------------------------------------------------
(* The search page at work                                                  *)

\* the mid-line cuts of the chunks of one response, and the page reached with
\* the Next button, are bounded
MaxSplits == 1

MaxPage == 6

\* onChange of the description, typed while no search is running
SetJobDescription(value) ==
    /\ client.pc = "idle"
    /\ client' = [client EXCEPT !.jobDescription = value]
    /\ UNCHANGED <<lastIndex, parsed, prevParsed, analysis, prevAnalysis, linkedin, server, heap>>

\* onChange of the LinkedIn URL
SetLinkedInUrl(value) ==
    /\ client.pc = "idle"
    /\ client' = [client EXCEPT !.linkedInUrl = value]
    /\ UNCHANGED <<lastIndex, parsed, prevParsed, analysis, prevAnalysis, linkedin, server, heap>>

\* handleFileChange: a file is chosen
handleFileChange(file) ==
    /\ client.pc = "idle"
    /\ client' = [client EXCEPT !.resumeFile = Present(file)]
    /\ UNCHANGED <<lastIndex, parsed, prevParsed, analysis, prevAnalysis, linkedin, server, heap>>

\* handleRemoveFile
handleRemoveFile ==
    /\ client.pc = "idle"
    /\ client.resumeFile.defined
    /\ client' = [client EXCEPT !.resumeFile = Absent]
    /\ UNCHANGED <<lastIndex, parsed, prevParsed, analysis, prevAnalysis, linkedin, server, heap>>

\* handleSubmit to its first await: the file read when there is a file, the
\* fetch when there is none
handleSubmit ==
    /\ ~ SubmitDisabled(client)
    /\ LET started == [client EXCEPT !.isSubmitting = TRUE,
                                     !.jobs         = <<>>,
                                     !.showResults  = TRUE,
                                     !.searchStatus = Present([ message  |-> "Initializing search...",
                                                                progress |-> 0 ]),
                                     !.wire = <<>>, !.read = 0, !.inside = FALSE, !.splits = 0]
       IN  client' = IF client.resumeFile.defined
                     THEN [started EXCEPT !.pc = "file", !.sent = Absent]
                     ELSE [started EXCEPT !.pc = "fetch", !.sent = Present(RequestBody(client, ""))]
    /\ UNCHANGED <<lastIndex, parsed, prevParsed, analysis, prevAnalysis, linkedin, server, heap>>

\* reader.onload or reader.onerror: the text of the file or '', then the fetch
FileRead ==
    /\ client.pc = "file"
    /\ client' = [client EXCEPT
                     !.pc   = "fetch",
                     !.sent = Present(RequestBody(client,
                                  IF client.resumeFile.value.readable
                                  THEN client.resumeFile.value.text ELSE ""))]
    /\ UNCHANGED <<lastIndex, parsed, prevParsed, analysis, prevAnalysis, linkedin, server, heap>>

\* fetch resolves: a response that is not ok throws, one that is ok is read
FetchResolves ==
    /\ client.pc = "fetch"
    /\ \E failing \in BOOLEAN :
         LET Resolved(response) ==
                 client' = IF response.ok
                           THEN [client EXCEPT !.pc = "stream", !.wire = response.wire]
                           ELSE Caught(client)
         IN  Resolved(responseOf[<<client.sent.value, failing>>])
    /\ UNCHANGED <<lastIndex, parsed, prevParsed, analysis, prevAnalysis, linkedin, server, heap>>

\* fetch rejects
FetchRejects ==
    /\ client.pc = "fetch"
    /\ client' = Caught(client)
    /\ UNCHANGED <<lastIndex, parsed, prevParsed, analysis, prevAnalysis, linkedin, server, heap>>

\* reader.read() resolves with a chunk, which ends after an event or, with
\* cut, in the line of one; its lines are applied
ReadChunk ==
    /\ client.pc = "stream"
    /\ LET Read(wire) ==
               \E upto \in 0..Len(wire), cut \in BOOLEAN :
                 /\ upto >= (IF client.inside THEN client.read + 1 ELSE client.read)
                 /\ upto > client.read \/ cut
                 /\ cut => upto < Len(wire) /\ client.splits < MaxSplits
                 /\ client' = [ApplyLines(client, Lines(wire, client.read, client.inside, upto, cut))
                                  EXCEPT !.read   = upto,
                                         !.inside = cut,
                                         !.splits = IF cut THEN client.splits + 1 ELSE client.splits]
       IN  Read(client.wire)
    /\ UNCHANGED <<lastIndex, parsed, prevParsed, analysis, prevAnalysis, linkedin, server, heap>>

\* reader.read() resolves with done
ReadDone ==
    /\ client.pc = "stream"
    /\ ~ client.inside
    /\ client.read = Len(client.wire)
    /\ client' = Finally(client)
    /\ UNCHANGED <<lastIndex, parsed, prevParsed, analysis, prevAnalysis, linkedin, server, heap>>

\* reader.read() rejects
ReadRejects ==
    /\ client.pc = "stream"
    /\ client' = Caught(client)
    /\ UNCHANGED <<lastIndex, parsed, prevParsed, analysis, prevAnalysis, linkedin, server, heap>>

\* handlePageChange(page) from the Previous button, a page button or the Next
\* button
handlePageChange(page) ==
    /\ ResultsShown(client)
    /\ page <= MaxPage
    /\ \/ page = client.currentPage - 1 /\ client.currentPage # 1
       \/ /\ page \in 1..totalPages(client)
          /\ \/ page = 1
             \/ page = totalPages(client)
             \/ page - client.currentPage \in { -1, 0, 1 }
       \/ page = client.currentPage + 1 /\ client.currentPage # totalPages(client)
    /\ client' = [client EXCEPT !.currentPage = page]
    /\ UNCHANGED <<lastIndex, parsed, prevParsed, analysis, prevAnalysis, linkedin, server, heap>>

\* handleNewSearch
handleNewSearch ==
    /\ ResultsShown(client)
    /\ client' = [client EXCEPT !.showResults    = FALSE,
                                !.jobs           = <<>>,
                                !.searchStatus   = Absent,
                                !.jobDescription = "",
                                !.currentPage    = 1]
    /\ UNCHANGED <<lastIndex, parsed, prevParsed, analysis, prevAnalysis, linkedin, server, heap>>

Progress == FileRead \/ FetchResolves \/ FetchRejects \/ ReadChunk \/ ReadDone \/ ReadRejects

\* the form and its submit
NextSubmit ==
    \/ \E value \in FormDescriptions : SetJobDescription(value)
    \/ \E value \in FormLinkedInUrls : SetLinkedInUrl(value)
    \/ \E file \in Files : handleFileChange(file)
    \/ handleRemoveFile
    \/ handleSubmit
    \/ Progress

\* the form, its submit and the buttons of the results
NextPage ==
    \/ NextSubmit
    \/ \E page \in 0..MaxPage : handlePageChange(page)
    \/ handleNewSearch

SpecPage == Init /\ [][NextPage]_vars

\* the form and its submit, where the file read, the fetch and the reads of
\* the response each complete or fail
FairSpecSubmit == Init /\ [][NextSubmit]_vars /\ WF_vars(Progress)

-----------------------------------------------------------------------------
(* The arrays of the two scorers, held by reference                         *)

\* the results a caller holds and the pushes it makes onto their lists are
\* bounded
MaxResults == 2

MaxPushes == 1

\* the array of objects that has the entries of value, if there is one, is
\* handed on; an array is created only if there is none
Shared(objects, value) ==
    IF \E a \in 1..Len(objects) : objects[a] = value
    THEN [ objects |-> objects, at |-> CHOOSE a \in 1..Len(objects) : objects[a] = value ]
    ELSE [ objects |-> Append(objects, value), at |-> Len(objects) + 1 ]

\* an array created where objects are the arrays there are: [...x], x.slice(),
\* x.filter(), a literal; at is its address
Fresh(objects, value) == [ objects |-> Append(objects, value), at |-> Len(objects) + 1 ]

\* the arrays of result under the keys of fields, each created anew, as in
\* the return statements of analyzeResumeForJob (matchingKeywords,
\* missingKeywords, matchingSkills, missingSkills: [...new Set(x)];
\* strengthsFound, improvementAreas, metricsSuggestions: x.slice()) and of
\* analyzeLinkedInProfile (summaryFeedback: x.slice(); endorsementSuggestions,
\* skillGaps: [...new Set(x)]; improvements: the literal of the call)
RECURSIVE Returned(_, _, _)
Returned(objects, result, fields) ==
    IF fields = <<>> THEN [ objects |-> objects, lists |-> [ f \in {} |-> 0 ] ]
    ELSE LET first == Fresh(objects, result[Head(fields)])
             rest  == Returned(first.objects, result, Tail(fields))
         IN  [ objects |-> rest.objects,
               lists   |-> (Head(fields) :> first.at) @@ rest.lists ]

\* the object a reference leads to: its arrays are read where they are
ValueOf(h, ref) ==
    [ f \in DOMAIN ref.result |->
        IF f \in DOMAIN ref.lists THEN h.objects[ref.lists[f]] ELSE ref.result[f] ]

\* a caller holds a ParsedResume and a posting with its requirements
HoldArguments(resume, job) ==
    /\ ~ heap.held
    /\ LET lists        == Returned(<<>>, resume, << "skills", "experience", "education",
                                                      "certifications", "keywords", "metrics" >>)
           requirements == Returned(lists.objects, job, << "jobRequirements" >>)
       IN  heap' = [ held    |-> TRUE,
                     objects |-> requirements.objects,
                     resume  |-> [ result |-> resume, lists |-> lists.lists ],
                     job     |-> [ result |-> job, lists |-> requirements.lists ],
                     results |-> <<>>,
                     pushes  |-> 0 ]
    /\ UNCHANGED <<lastIndex, parsed, prevParsed, analysis, prevAnalysis, linkedin, server, client>>

\* analyzeResumeForJob(resume, jobTitle, jobDescription, requirements) with
\* the arguments held: the arguments are read, the lists returned are created
AnalyzeOnHeap ==
    /\ heap.held
    /\ Len(heap.results) < MaxResults
    /\ LET job      == ValueOf(heap, heap.job)
           result   == analyzeResumeForJob(ValueOf(heap, heap.resume), job.jobTitle,
                                           job.jobDescription, job.jobRequirements)
           returned == Returned(heap.objects, result,
                                << "matchingKeywords", "missingKeywords", "matchingSkills",
                                   "missingSkills", "strengthsFound", "improvementAreas",
                                   "metricsSuggestions" >>)
       IN  heap' = [heap EXCEPT !.objects = returned.objects,
                                !.results = Append(@, [ of     |-> "analyzeResumeForJob",
                                                        result |-> result,
                                                        lists  |-> returned.lists ])]
    /\ UNCHANGED <<lastIndex, parsed, prevParsed, analysis, prevAnalysis, linkedin, server, client>>

\* analyzeLinkedInProfile(linkedinUrl, jobTitle, jobDescription, requirements,
\* resumeAnalysis) with no resumeAnalysis (r = 0) or with the result r held
LinkedInOnHeap(linkedinUrl, r) ==
    /\ heap.held
    /\ Len(heap.results) < MaxResults
    /\ r \in 0..Len(heap.results)
    /\ r > 0 => heap.results[r].of = "analyzeResumeForJob"
    /\ LET job      == ValueOf(heap, heap.job)
           result   == analyzeLinkedInProfile(linkedinUrl, job.jobTitle, job.jobDescription,
                                              job.jobRequirements,
                                              IF r = 0 THEN NoAnalysis
                                              ELSE Supplied(ValueOf(heap, heap.results[r])))
           returned == Returned(heap.objects, result,
                                << "summaryFeedback", "endorsementSuggestions", "skillGaps",
                                   "improvements" >>)
       IN  heap' = [heap EXCEPT !.objects = returned.objects,
                                !.results = Append(@, [ of     |-> "analyzeLinkedInProfile",
                                                        result |-> result,
                                                        lists  |-> returned.lists ])]
    /\ UNCHANGED <<lastIndex, parsed, prevParsed, analysis, prevAnalysis, linkedin, server, client>>

\* the caller pushes an entry onto list f of the result r it holds
PushToResult(r, f) ==
    /\ heap.held
    /\ heap.pushes < MaxPushes
    /\ r \in 1..Len(heap.results)
    /\ f \in DOMAIN heap.results[r].lists
    /\ heap' = [heap EXCEPT !.objects[heap.results[r].lists[f]] = Append(@, "entry"),
                            !.pushes = @ + 1]
    /\ UNCHANGED <<lastIndex, parsed, prevParsed, analysis, prevAnalysis, linkedin, server, client>>

NextHeap ==
    \/ \E text \in { "", ResumeLines[2] },
          job \in { j \in Jobs : j.jobTitle # "" /\ j.jobRequirements \in { << RequirementLines[2] >>,
                                                                            << RequirementLines[3] >> } } :
         HoldArguments(parseResumeTextOf[text], job)
    \/ AnalyzeOnHeap
    \/ \E r \in 0..MaxResults : LinkedInOnHeap(SearchLinkedinUrl, r)
    \/ \E r \in 1..MaxResults,
          f \in { "matchingKeywords", "missingKeywords", "matchingSkills", "missingSkills",
                  "strengthsFound", "improvementAreas", "metricsSuggestions",
                  "summaryFeedback", "endorsementSuggestions", "skillGaps", "improvements" } :
         PushToResult(r, f)

SpecHeap == Init /\ [][NextHeap]_vars

-----------------------------------------------------------------------------
(* Properties of analyzeResumeForJob                                       *)

\* the terms of vocabulary that occur in lowerText, as a set
TermsOf(vocabulary, lowerText) ==
    { vocabulary[i] : i \in { j \in 1..Len(vocabulary) : Includes(lowerText, vocabulary[j]) } }

\* the text a posting is scored by, in lower case
TargetText(job) ==
    ToLowerCase(job.jobTitle \o " " \o job.jobDescription \o " " \o Join(job.jobRequirements, " "))

\* the vocabulary terms in the target text of every posting
TargetTerms ==
    [ job \in Jobs |-> [ skills |-> TermsOf(TECH_SKILLS, TargetText(job)),
                         terms  |-> TermsOf(jobTerms, TargetText(job)) ] ] @@ <<>>

\* the vocabulary terms in every resume text in lower case, and whether an
\* action verb occurs in it
ProfileTerms ==
    [ text \in ResumeTexts |->
        LET lower == ToLowerCase(text)
        IN  [ keywords |-> TermsOf(TECH_SKILLS, lower) \cup TermsOf(jobTerms, lower),
              verb     |-> \E i \in 1..Len(ACTION_VERBS) : Includes(lower, ACTION_VERBS[i]) ] ]
    @@ <<>>

TargetSkills(job) == TargetTerms[job].skills

TargetKeywords(job) == TargetTerms[job].skills \cup TargetTerms[job].terms

\* the number of entries of resume.skills that are target skills
MatchedSkillCount(resume, job) ==
    LET target == TargetSkills(job)
    IN  Cardinality({ i \in 1..Len(resume.skills) : ToLowerCase(resume.skills[i]) \in target })

\* the number of target keywords that occur in the raw text
MatchedKeywordCount(resume, job) ==
    Cardinality(TargetKeywords(job) \cap ProfileTerms[resume.rawText].keywords)

\* the points a profile earns whatever the target: metrics 15, action verbs 10, certifications 5
ProfileBonus(resume) ==
    (IF Len(resume.metrics) >= 1 THEN 15 ELSE 0)
    + (IF ProfileTerms[resume.rawText].verb THEN 10 ELSE 0)
    + (IF Len(resume.certifications) >= 1 THEN 5 ELSE 0)

\* the integer nearest to num / den, halves upwards, for 0 <= num / den < 200
Rounded(num, den) ==
    CHOOSE r \in 0..200 : (2 * r - 1) * den <= 2 * num /\ 2 * num < (2 * r + 1) * den

\* round(skillNum/skillDen * 40 + keywordNum/keywordDen * 30 + bonus), clamped to 0..100
ExpectedScore(skillNum, skillDen, keywordNum, keywordDen, bonus) ==
    LET r == Rounded(40 * skillNum * keywordDen + 30 * keywordNum * skillDen
                     + bonus * skillDen * keywordDen, skillDen * keywordDen)
    IN  IF r > 100 THEN 100 ELSE r

\* the last call returned, and nothing was called since
JustAnalyzed == analysis.called /\ ~ linkedin.called

\* C1: every result of analyzeResumeForJob has resumeScore and keywordDensity
\* integers between 0 and 100, for the parsed profiles and for the profiles
\* with one more skill entered.
ScoreBounds ==
    analysis.called =>
        /\ analysis.result.resumeScore \in 0..100
        /\ analysis.result.keywordDensity \in 0..100

\* a parsed profile that matches its whole target scores 100 with density 100
ScoreBoundsWitness ==
    /\ analysis.called
    /\ analysis.resume = parsed.result
    /\ analysis.result.resumeScore = 100
    /\ analysis.result.keywordDensity = 100

\* C2: every result of analyzeResumeForJob keeps all six caps: at most 10
\* matchingKeywords, 8 missingKeywords, 6 missingSkills, 4 strengthsFound,
\* 4 improvementAreas and 3 metricsSuggestions.
ListCaps ==
    analysis.called =>
        /\ Len(analysis.result.matchingKeywords) <= 10
        /\ Len(analysis.result.missingKeywords) <= 8
        /\ Len(analysis.result.missingSkills) <= 6
        /\ Len(analysis.result.strengthsFound) <= 4
        /\ Len(analysis.result.improvementAreas) <= 4
        /\ Len(analysis.result.metricsSuggestions) <= 3

\* a call where more than 8 target keywords and more than 6 target skills are
\* missing and more than 3 suggestions apply
ListCapsWitness ==
    /\ JustAnalyzed
    /\ Cardinality(TargetKeywords(analysis.job)) - MatchedKeywordCount(analysis.resume, analysis.job) > 8
    /\ Len(analysis.result.missingKeywords) = 8
    /\ Cardinality(TargetSkills(analysis.job)) - MatchedSkillCount(analysis.resume, analysis.job) > 6
    /\ Len(analysis.result.missingSkills) = 6
    /\ Len(analysis.result.metricsSuggestions) = 3
    /\ Len(analysis.result.improvementAreas) = 4

RepeatedCallsAgree ==
    /\ \A p \in 1..NumPatterns : lastIndex[p] = 0
    /\ ( /\ prevAnalysis.called
         /\ analysis.called
         /\ prevAnalysis.resume = analysis.resume
         /\ prevAnalysis.job = analysis.job )
       => prevAnalysis.result = analysis.result

\* a call was set aside and a later call has the same arguments, of a profile
\* whose metrics the global patterns matched
RepeatedCallsAgreeWitness ==
    /\ prevAnalysis.called
    /\ analysis.called
    /\ prevAnalysis.resume = analysis.resume
    /\ prevAnalysis.job = analysis.job
    /\ Len(analysis.resume.metrics) = 3
    /\ Len(analysis.result.matchingSkills) > 0

\* skill is a target skill of job that no entry of resume.skills matches
UnmatchedTargetSkill(resume, job, skill) ==
    /\ Includes(TargetText(job), skill)
    /\ \A i \in 1..Len(resume.skills) : ToLowerCase(resume.skills[i]) # skill

\* C5: for a target with target skills, a profile with one more skill entry that
\* is a target skill the profile did not match scores at least what the profile
\* scores against the same target.
AddedSkillNeverLowersScore ==
    analysis.called =>
        \A skill \in ExtraSkills :
            ( /\ analysis.resume = WithSkill(parsed.result, skill)
              /\ UnmatchedTargetSkill(parsed.result, analysis.job, skill) )
            => analysis.result.resumeScore
                 >= analyzeResumeForJobOf[<<parsed.result, analysis.job>>].resumeScore

\* a profile without docker gains score once docker is entered, against a
\* target that asks for docker
AddedSkillWitness ==
    /\ analysis.called
    /\ \E skill \in ExtraSkills :
         /\ analysis.resume = WithSkill(parsed.result, skill)
         /\ UnmatchedTargetSkill(parsed.result, analysis.job, skill)
         /\ Len(parsed.result.skills) > 0
         /\ analysis.result.resumeScore
              > analyzeResumeForJobOf[<<parsed.result, analysis.job>>].resumeScore

\* the empty target: analyzeResumeForJob(profile, "", "", [])
EmptyTarget == [ jobTitle |-> "", jobDescription |-> "", jobRequirements |-> <<>> ]

\* C6: against the empty target every profile gets keywordDensity 50, empty
\* matching and missing skill and keyword lists, and a score of 0.5 * 40 +
\* 0.5 * 30 plus only the bonuses of the profile (metrics 15, action verbs 10,
\* certifications 5).
EmptyTargetScore ==
    (analysis.called /\ analysis.job = EmptyTarget) =>
        /\ analysis.result.keywordDensity = 50
        /\ analysis.result.matchingSkills = <<>>
        /\ analysis.result.missingSkills = <<>>
        /\ analysis.result.matchingKeywords = <<>>
        /\ analysis.result.missingKeywords = <<>>
        /\ analysis.result.resumeScore = (40 + 30) \div 2 + ProfileBonus(analysis.resume)

\* a profile with skills, metrics, an action verb and a certification scored
\* against the empty target
EmptyTargetWitness ==
    /\ analysis.called
    /\ analysis.job = EmptyTarget
    /\ Len(analysis.resume.skills) > 0
    /\ ProfileBonus(analysis.resume) = 30
    /\ analysis.result.resumeScore = 65

\* the scenario: skills python and docker, three metrics, "led" in the raw
\* text; title "Senior Backend Engineer"; python, docker and kubernetes the
\* skills the requirements mention
Scenario ==
    /\ JustAnalyzed
    /\ analysis.resume.skills = << "python", "docker" >>
    /\ Len(analysis.resume.metrics) = 3
    /\ Includes(ToLowerCase(analysis.resume.rawText), "led")
    /\ analysis.job.jobTitle = "Senior Backend Engineer"
    /\ TermsOf(TECH_SKILLS, ToLowerCase(Join(analysis.job.jobRequirements, " ")))
         = { "python", "docker", "kubernetes" }
    /\ TargetSkills(analysis.job) = { "python", "docker", "kubernetes" }

\* the score of the scenario with skillNum / skillDen as its skill ratio
ScenarioScore(skillNum, skillDen) ==
    LET keywords == Cardinality(TargetKeywords(analysis.job))
    IN  ExpectedScore(skillNum, skillDen,
                      IF keywords = 0 THEN 1
                      ELSE MatchedKeywordCount(analysis.resume, analysis.job),
                      IF keywords = 0 THEN 2 ELSE keywords,
                      15 + 10 + (IF Len(analysis.resume.certifications) > 0 THEN 5 ELSE 0))

\* C9 as stated: in the scenario matchingSkills is python and docker,
\* missingSkills contains kubernetes, and the score is
\* round(1.0 * 40 + keywordRatio * 30 + 15 + 10 + certBonus).
ScenarioScoreFullSkillRatio ==
    Scenario =>
        /\ analysis.result.matchingSkills = << "python", "docker" >>
        /\ Contains(analysis.result.missingSkills, "kubernetes")
        /\ analysis.result.resumeScore = ScenarioScore(1, 1)

\* C9 amended: in the scenario matchingSkills is python and docker,
\* missingSkills contains kubernetes, and the score is
\* round((2/3) * 40 + keywordRatio * 30 + 15 + 10 + certBonus): two of the
\* three target skills match.
ScenarioScoreTwoThirds ==
    Scenario =>
        /\ analysis.result.matchingSkills = << "python", "docker" >>
        /\ Contains(analysis.result.missingSkills, "kubernetes")
        /\ analysis.result.resumeScore = ScenarioScore(2, 3)

\* the scenario scored, without certifications: 64, where a skill ratio of 1.0
\* would give 77
ScenarioWitness ==
    /\ Scenario
    /\ analysis.resume.certifications = <<>>
    /\ analysis.result.resumeScore = 64
    /\ ScenarioScore(1, 1) = 77

-----------------------------------------------------------------------------
(* Properties of parseResumeText                                           *)

\* c1 and c2 are the same character, or the same letter in two cases
SameLetter(c1, c2) ==
    \/ c1 = c2
    \/ c1 \in DOMAIN LowerOf /\ LowerOf[c1] = c2
    \/ c2 \in DOMAIN LowerOf /\ LowerOf[c2] = c1

\* term occurs in text when letter case is ignored
OccursIn(term, text) ==
    \E i \in 0..(Len(text) - Len(term)) :
        \A k \in 1..Len(term) : SameLetter(CharAt(text, i + k), CharAt(term, k))

\* the terms of vocabulary that occur in text, in the order of the vocabulary
Reported(vocabulary, text) == SelectSeq(vocabulary, LAMBDA term : OccursIn(term, text))

\* a and b differ in letter case at most
SameButCase(a, b) ==
    /\ Len(a) = Len(b)
    /\ \A i \in 1..Len(a) : SameLetter(CharAt(a, i), CharAt(b, i))

\* no term of the five vocabularies and no match of the six patterns is in text
PlainText(text) ==
    /\ \A vocabulary \in { TECH_SKILLS, ACTION_VERBS, educationKeywords, certKeywords,
                            experienceIndicators } :
         \A i \in 1..Len(vocabulary) : ~ OccursIn(vocabulary[i], text)
    /\ \A p \in 1..NumPatterns : \A i \in 1..Len(text) : MatchLen(text, i, p) = 0

\* C7: for the empty string and for a text with no vocabulary term and no metric
\* pattern, parseResumeText returns skills, keywords, metrics, education,
\* certifications and experience all empty and rawText equal to the text.
PlainTextParsesEmpty ==
    (parsed.called /\ PlainText(parsed.text)) =>
        /\ parsed.result.skills = <<>>
        /\ parsed.result.keywords = <<>>
        /\ parsed.result.metrics = <<>>
        /\ parsed.result.education = <<>>
        /\ parsed.result.certifications = <<>>
        /\ parsed.result.experience = <<>>
        /\ parsed.result.rawText = parsed.text

\* the empty string was parsed after a text of letters with no term in it
PlainTextWitness ==
    /\ parsed.called
    /\ parsed.text = ""
    /\ parsed.result.rawText = ""
    /\ prevParsed.called
    /\ prevParsed.text # ""
    /\ PlainText(prevParsed.text)
    /\ prevParsed.result.skills = <<>>

\* C8: parseResumeText reports in skills, education, certifications and
\* experience exactly the terms of the vocabulary whose lower case occurs in
\* the lowercased text, in vocabulary order, and in keywords the skills
\* followed by the action verbs; two texts that differ in letter case only
\* get the same five lists.
ReportsTermsPresent ==
    parsed.called =>
        /\ parsed.result.skills = Reported(TECH_SKILLS, parsed.text)
        /\ parsed.result.keywords
             = Reported(TECH_SKILLS, parsed.text) \o Reported(ACTION_VERBS, parsed.text)
        /\ parsed.result.education = Reported(educationKeywords, parsed.text)
        /\ parsed.result.certifications = Reported(certKeywords, parsed.text)
        /\ parsed.result.experience = Reported(experienceIndicators, parsed.text)
        /\ (prevParsed.called /\ SameButCase(prevParsed.text, parsed.text)) =>
              /\ prevParsed.result.skills = parsed.result.skills
              /\ prevParsed.result.keywords = parsed.result.keywords
              /\ prevParsed.result.education = parsed.result.education
              /\ prevParsed.result.certifications = parsed.result.certifications
              /\ prevParsed.result.experience = parsed.result.experience

\* two texts that differ in letter case were parsed, and skills were found
ReportsTermsWitness ==
    /\ parsed.called
    /\ prevParsed.called
    /\ prevParsed.text # parsed.text
    /\ SameButCase(prevParsed.text, parsed.text)
    /\ parsed.result.skills = << "react" >>
    /\ prevParsed.result.rawText # parsed.result.rawText

-----------------------------------------------------------------------------
(* Properties of analyzeLinkedInProfile                                    *)

\* the reference is empty or whitespace only
Blank(linkedinUrl) == \A i \in 1..Len(linkedinUrl) : IsSpace(CharAt(linkedinUrl, i))

\* C10: for an empty or whitespace-only profile reference analyzeLinkedInProfile
\* returns linkedinScore 50 and the missing-profile overallFeedback, for every
\* target, with or without a resumeAnalysis and whatever its resumeScore.
BlankReferenceScoresFifty ==
    (linkedin.called /\ Blank(linkedin.linkedinUrl)) =>
        /\ linkedin.result.linkedinScore = 50
        /\ linkedin.result.overallFeedback
             = "LinkedIn profile is missing or incomplete. A complete profile significantly improves your visibility to recruiters."

\* a whitespace-only reference scored with a resumeAnalysis of score 100
BlankReferenceWitness ==
    /\ linkedin.called
    /\ linkedin.linkedinUrl # ""
    /\ Blank(linkedin.linkedinUrl)
    /\ linkedin.resumeAnalysis.supplied
    /\ linkedin.resumeAnalysis.resumeScore = 100
    /\ linkedin.result.linkedinScore = 50

\* C11: for a non-blank reference, linkedinScore is base = min(100, 50 + 25 * k),
\* k counting "/in/" in the reference (letter case ignored) and a length above
\* 30, when no resumeAnalysis is passed, and round((base + resumeScore) / 2)
\* when one is; it is an integer between 0 and 100.
LinkedinScoreFormula ==
    (linkedin.called /\ ~ Blank(linkedin.linkedinUrl)) =>
        LET url  == linkedin.linkedinUrl
            k    == (IF OccursIn("/in/", url) THEN 1 ELSE 0) + (IF Len(url) > 30 THEN 1 ELSE 0)
            base == IF 50 + 25 * k > 100 THEN 100 ELSE 50 + 25 * k
        IN  /\ linkedin.result.linkedinScore =
                  IF linkedin.resumeAnalysis.supplied
                  THEN Rounded(base + linkedin.resumeAnalysis.resumeScore, 2)
                  ELSE base
            /\ linkedin.result.linkedinScore \in 0..100

\* a reference with "/IN/" in capitals and a resumeAnalysis whose score makes
\* the mean end in one half, which is rounded upwards
LinkedinScoreWitness ==
    /\ linkedin.called
    /\ linkedin.linkedinUrl = "linkedin.com/IN/jane"
    /\ linkedin.resumeAnalysis.supplied
    /\ linkedin.resumeAnalysis.resumeScore % 2 = 0
    /\ 2 * linkedin.result.linkedinScore = 75 + linkedin.resumeAnalysis.resumeScore + 1

\* the band of a result of analyzeLinkedInProfile: 0 without a profile, else
\* 1 for a score from 80, 2 from 60, 3 from 40, 4 below 40
LinkedinBand(linkedinUrl, linkedinScore) ==
    IF Blank(linkedinUrl) THEN 0
    ELSE IF linkedinScore >= 80 THEN 1
    ELSE IF linkedinScore >= 60 THEN 2
    ELSE IF linkedinScore >= 40 THEN 3
    ELSE 4

\* C12: overallFeedback of analyzeLinkedInProfile is one of five narratives, the
\* missing-profile one without a profile and else one per score band (from 80,
\* from 60, from 40, below 40): two results have the same narrative exactly
\* when they are in the same band.
LinkedinFeedbackFiveBands ==
    linkedin.called =>
        \A linkedinUrl \in LinkedinUrls :
            LET other == analyzeLinkedInProfileOf[<<linkedinUrl, linkedin.job>>]
            IN  (other.overallFeedback = linkedin.result.overallFeedback)
                <=> (LinkedinBand(linkedinUrl, other.linkedinScore)
                       = LinkedinBand(linkedin.linkedinUrl, linkedin.result.linkedinScore))

\* C13: overallFeedback of analyzeResumeForJob is the excellent-match string for
\* a resumeScore from 80, the good-match string from 60 to 79, the
\* moderate-match string from 40 to 59 and the needs-tailoring string below
\* 40, by the resumeScore of the same result.
ResumeFeedbackBands ==
    analysis.called =>
        analysis.result.overallFeedback =
            IF analysis.result.resumeScore >= 80
            THEN "Excellent match! Your resume aligns very well with this position. Focus on tailoring your cover letter to stand out."
            ELSE IF analysis.result.resumeScore >= 60
            THEN "Good match with room for improvement. Consider highlighting the matching skills more prominently and addressing the missing keywords."
            ELSE IF analysis.result.resumeScore >= 40
            THEN "Moderate match. You may need to emphasize transferable skills and add more relevant keywords to strengthen your application."
            ELSE "This role may require significant resume tailoring. Focus on highlighting any relevant experience and consider gaining the missing skills."

\* a result whose resumeScore is 60, the lowest of the good-match band
ResumeFeedbackWitness ==
    /\ analysis.called
    /\ analysis.result.resumeScore = 60
    /\ Len(analysis.resume.metrics) > 0

-----------------------------------------------------------------------------
(* Properties of the lists analyzeResumeForJob returns                     *)

\* the first n entries of seq
FirstN(seq, n) == [ i \in 1..(IF Len(seq) < n THEN Len(seq) ELSE n) |-> seq[i] ]

\* the messages of the rules that hold, in the order of the rules
Triggered(rules) ==
    LET kept == SelectSeq(rules, LAMBDA rule : rule.holds)
    IN  [ i \in 1..Len(kept) |-> kept[i].message ]

\* an action verb occurs in the lowercased raw text
VerbInRawText(resume) == ProfileTerms[resume.rawText].verb

\* the target skills no entry of resume.skills matches, in vocabulary order
MissingSkillList(resume, job) ==
    LET target  == TargetSkills(job)
        entered == { ToLowerCase(resume.skills[i]) : i \in 1..Len(resume.skills) }
    IN  SelectSeq(TECH_SKILLS, LAMBDA term : term \in target /\ term \notin entered)

\* the keywords among terms: skill vocabulary first, then the job terms
KeywordList(terms) ==
    SelectSeq(TECH_SKILLS \o jobTerms, LAMBDA term : term \in terms)

\* the target keywords that do not occur in the raw text, in vocabulary order
MissingKeywordList(resume, job) ==
    KeywordList(TargetKeywords(job) \ ProfileTerms[resume.rawText].keywords)

\* C14: strengthsFound is the first 4 of the candidates, in this order, each
\* present exactly when its trigger holds: at least 3 matching skills, at least
\* 2 metrics, an action verb in the raw text, at least 1 certification, at
\* least 5 matching keywords counted before any cap; with all five triggers
\* the keyword message is the one dropped.
StrengthsInOrder ==
    JustAnalyzed =>
        LET resume == analysis.resume
            skills == MatchedSkillCount(resume, analysis.job)
        IN  analysis.result.strengthsFound = FirstN(Triggered(<<
                [ holds   |-> skills >= 3,
                  message |-> "Strong technical skill alignment (" \o NumberToString(skills)
                              \o " matching skills)" ],
                [ holds   |-> Len(resume.metrics) >= 2,
                  message |-> "Good use of quantifiable metrics and achievements" ],
                [ holds   |-> VerbInRawText(resume),
                  message |-> "Effective use of action verbs to describe accomplishments" ],
                [ holds   |-> Len(resume.certifications) >= 1,
                  message |-> "Relevant certifications found ("
                              \o Join(resume.certifications, ", ") \o ")" ],
                [ holds   |-> MatchedKeywordCount(resume, analysis.job) >= 5,
                  message |-> "Strong keyword alignment with job description" ] >>), 4)

\* all five triggers hold and four strengths are returned, the last of them
\* the certifications message
StrengthsWitness ==
    /\ JustAnalyzed
    /\ MatchedSkillCount(analysis.resume, analysis.job) >= 3
    /\ Len(analysis.resume.metrics) >= 2
    /\ VerbInRawText(analysis.resume)
    /\ Len(analysis.resume.certifications) >= 1
    /\ MatchedKeywordCount(analysis.resume, analysis.job) >= 5
    /\ Len(analysis.result.strengthsFound) = 4
    /\ analysis.result.strengthsFound[4] = "Relevant certifications found (aws certified)"

\* C15: improvementAreas is, in this order, exactly the messages whose trigger
\* holds: a missing skill (counted before the cap of 6), naming the first 4 at
\* most; fewer than 2 metrics; no action verb in the raw text; more than 3
\* missing keywords, naming the first 4; the cap of 4 removes none.
ImprovementsInOrder ==
    JustAnalyzed =>
        LET resume   == analysis.resume
            skills   == MissingSkillList(resume, analysis.job)
            keywords == MissingKeywordList(resume, analysis.job)
        IN  analysis.result.improvementAreas = Triggered(<<
                [ holds   |-> Len(skills) >= 1,
                  message |-> "Add these in-demand skills if you have them: "
                              \o Join(FirstN(skills, 4), ", ") ],
                [ holds   |-> Len(resume.metrics) < 2,
                  message |-> "Include more quantifiable achievements (percentages, dollar amounts, user counts)" ],
                [ holds   |-> ~ VerbInRawText(resume),
                  message |-> "Start bullet points with strong action verbs (Led, Developed, Achieved, etc.)" ],
                [ holds   |-> Len(keywords) > 3,
                  message |-> "Consider incorporating these keywords: "
                              \o Join(FirstN(keywords, 4), ", ") ] >>)

\* more than 6 skills and more than 8 keywords are missing, the profile has no
\* metric and no action verb: all four messages are returned
ImprovementsWitness ==
    /\ JustAnalyzed
    /\ Len(MissingSkillList(analysis.resume, analysis.job)) > 6
    /\ Len(MissingKeywordList(analysis.resume, analysis.job)) > 8
    /\ analysis.resume.metrics = <<>>
    /\ ~ VerbInRawText(analysis.resume)
    /\ Len(analysis.result.improvementAreas) = 4

\* C16: metricsSuggestions is the first 3 of the candidates, in the order
\* team/lead, performance/optimization, revenue/cost, user/customer,
\* project/delivery, each present exactly when a word of its pair occurs in the
\* lowercased target text.
SuggestionsInOrder ==
    JustAnalyzed =>
        LET text == TargetText(analysis.job)
        IN  analysis.result.metricsSuggestions = FirstN(Triggered(<<
                [ holds   |-> Includes(text, "team") \/ Includes(text, "lead"),
                  message |-> "Add team size you've managed or collaborated with (e.g., \"Led a team of 8 engineers\")" ],
                [ holds   |-> Includes(text, "performance") \/ Includes(text, "optimization"),
                  message |-> "Include performance improvements (e.g., \"Improved load time by 40%\")" ],
                [ holds   |-> Includes(text, "revenue") \/ Includes(text, "cost"),
                  message |-> "Add business impact metrics (e.g., \"Reduced costs by $50K annually\")" ],
                [ holds   |-> Includes(text, "user") \/ Includes(text, "customer"),
                  message |-> "Include user/customer impact (e.g., \"Served 100K+ daily active users\")" ],
                [ holds   |-> Includes(text, "project") \/ Includes(text, "delivery"),
                  message |-> "Mention project delivery metrics (e.g., \"Delivered 15 features ahead of schedule\")" ] >>), 3)

\* only team/lead, user/customer and project/delivery fire, by the second word
\* of each pair, and the delivery suggestion is returned third
SuggestionsWitness ==
    /\ JustAnalyzed
    /\ analysis.job.jobRequirements = << "Customer delivery" >>
    /\ Includes(TargetText(analysis.job), "lead")
    /\ Len(analysis.result.metricsSuggestions) = 3
    /\ analysis.result.metricsSuggestions[3]
         = "Mention project delivery metrics (e.g., \"Delivered 15 features ahead of schedule\")"

\* the entries of seq at the indices in keep, in order
Pick(seq, keep) ==
    [ k \in 1..Cardinality(keep) |->
        seq[CHOOSE i \in keep : Cardinality({ j \in keep : j <= i }) = k] ]

\* the entries of seq, as a set
Entries(seq) == { seq[i] : i \in 1..Len(seq) }

\* the entries of seq in lower case, as a set
LowerEntries(seq) == { ToLowerCase(seq[i]) : i \in 1..Len(seq) }

\* the indices of the entries of resume.skills that are target skills, an
\* entry that repeats an earlier one left out
MatchedSkillIndices(resume, job) ==
    { i \in 1..Len(resume.skills) :
        /\ ToLowerCase(resume.skills[i]) \in TargetSkills(job)
        /\ \A j \in 1..(i - 1) : resume.skills[j] # resume.skills[i] }

\* C17 as stated: matchingSkills is the set of profile skills equal, whatever
\* the case, to a target skill, missingSkills is targetSkills minus
\* matchingSkills, the two are disjoint and their union is the set of skill
\* vocabulary terms in the target text.
SkillsPartitionUncapped ==
    JustAnalyzed =>
        LET resume   == analysis.resume
            target   == TargetSkills(analysis.job)
            matching == LowerEntries(analysis.result.matchingSkills)
            missing  == Entries(analysis.result.missingSkills)
        IN  /\ analysis.result.matchingSkills
                 = Pick(resume.skills, MatchedSkillIndices(resume, analysis.job))
            /\ missing = target \ matching
            /\ matching \cap missing = {}
            /\ matching \cup missing = target

\* C17: matchingSkills is the profile skills equal, whatever the case, to a
\* target skill, each once; missingSkills is the first 6, in vocabulary order,
\* of the target skills the profile does not have; the two are disjoint; their
\* union is the set of target skills when at most 6 are missing, and a part of
\* it otherwise.
SkillsPartition ==
    JustAnalyzed =>
        LET resume   == analysis.resume
            target   == TargetSkills(analysis.job)
            absent   == MissingSkillList(resume, analysis.job)
            matching == LowerEntries(analysis.result.matchingSkills)
            missing  == Entries(analysis.result.missingSkills)
        IN  /\ analysis.result.matchingSkills
                 = Pick(resume.skills, MatchedSkillIndices(resume, analysis.job))
            /\ analysis.result.missingSkills = FirstN(absent, 6)
            /\ matching \cap missing = {}
            /\ matching \cup missing \subseteq target
            /\ (Len(absent) <= 6) <=> (matching \cup missing = target)

\* a skill entered twice matches a target skill, and more than 6 target skills
\* are missing
SkillsPartitionWitness ==
    /\ JustAnalyzed
    /\ \E i, j \in 1..Len(analysis.resume.skills) :
         /\ i < j
         /\ analysis.resume.skills[i] = analysis.resume.skills[j]
         /\ analysis.resume.skills[i] \in Entries(analysis.result.matchingSkills)
    /\ Len(MissingSkillList(analysis.resume, analysis.job)) > 6
    /\ Len(analysis.result.missingSkills) = 6

\* no entry of seq repeats an earlier one
NoRepeats(seq) == \A i, j \in 1..Len(seq) : seq[i] = seq[j] => i = j

\* the target keywords that occur in the raw text, in vocabulary order
MatchingKeywordList(resume, job) ==
    KeywordList(TargetKeywords(job) \cap ProfileTerms[resume.rawText].keywords)

\* C18: with targetKeywords and profileKeywords the terms of the vocabulary,
\* skill vocabulary first and job terms after, each once, that are substrings
\* of the lowercased target text and of the lowercased raw text, the returned
\* matchingKeywords is the first 10 of their intersection, the returned
\* missingKeywords is the first 8 of targetKeywords not in profileKeywords, and
\* the two returned lists are disjoint and without repeats.
KeywordLists ==
    JustAnalyzed =>
        LET resume   == analysis.resume
            matching == analysis.result.matchingKeywords
            missing  == analysis.result.missingKeywords
        IN  /\ NoRepeats(KeywordList(TargetKeywords(analysis.job)))
            /\ NoRepeats(KeywordList(ProfileTerms[resume.rawText].keywords))
            /\ matching = FirstN(MatchingKeywordList(resume, analysis.job), 10)
            /\ missing = FirstN(MissingKeywordList(resume, analysis.job), 8)
            /\ Entries(matching) \cap Entries(missing) = {}
            /\ NoRepeats(matching)
            /\ NoRepeats(missing)

\* more than 10 target keywords match, a job term among them that the cut
\* drops, and some target keyword is missing
KeywordListsWitness ==
    /\ JustAnalyzed
    /\ Len(MatchingKeywordList(analysis.resume, analysis.job)) > 10
    /\ Len(MissingKeywordList(analysis.resume, analysis.job)) > 0
    /\ "saas" \in Entries(MatchingKeywordList(analysis.resume, analysis.job))
    /\ "saas" \notin Entries(analysis.result.matchingKeywords)
    /\ Len(analysis.result.matchingKeywords) = 10
    /\ Len(analysis.result.missingKeywords) > 0

-----------------------------------------------------------------------------
(* Properties of the metrics parseResumeText returns                       *)

\* the positions where a match of pattern p is taken: a pattern's candidates
\* overlap only as suffixes of one another, so the matches taken from left to
\* right are the candidates that no earlier candidate overlaps
MatchStarts(text, p) ==
    LET candidates == { i \in 1..Len(text) : MatchLen(text, i, p) > 0 }
    IN  { i \in candidates :
            \A j \in candidates : j < i => j + MatchLen(text, j, p) <= i }

\* the matches of pattern p in the text as given, from left to right
MatchesOf(text, p) ==
    LET starts == MatchStarts(text, p)
    IN  [ k \in 1..Cardinality(starts) |->
            LET i == CHOOSE h \in starts : Cardinality({ j \in starts : j <= h }) = k
            IN  SubSeq(text, i, i + MatchLen(text, i, p) - 1) ]

\* C20: the metrics of parseResumeText are the matches of the percentages
\* pattern, then of the currency, multipliers, user counts, time periods and
\* project counts patterns, each pattern's matches from left to right in the
\* text as given; no match is left out for being equal to another, so their
\* number is the sum of the patterns' match counts.
MetricsInPatternOrder ==
    parsed.called =>
        /\ parsed.result.metrics
             = MatchesOf(parsed.text, 1) \o MatchesOf(parsed.text, 2)
               \o MatchesOf(parsed.text, 3) \o MatchesOf(parsed.text, 4)
               \o MatchesOf(parsed.text, 5) \o MatchesOf(parsed.text, 6)
        /\ Len(parsed.result.metrics)
             = Cardinality(MatchStarts(parsed.text, 1)) + Cardinality(MatchStarts(parsed.text, 2))
               + Cardinality(MatchStarts(parsed.text, 3)) + Cardinality(MatchStarts(parsed.text, 4))
               + Cardinality(MatchStarts(parsed.text, 5)) + Cardinality(MatchStarts(parsed.text, 6))

\* a text where the time period comes first and the percentages last, one
\* percentage twice: the percentages lead the metrics, both kept
MetricsOrderWitness ==
    /\ parsed.called
    /\ parsed.result.metrics = << "10%", "10%", "$5,000,", "2 years", "10 projects" >>
    /\ MatchStarts(parsed.text, 5) # {}
    /\ \A i \in MatchStarts(parsed.text, 1), j \in MatchStarts(parsed.text, 5) : j < i

-----------------------------------------------------------------------------
(* Properties of the search handlers                                       *)

\* every character of s is white space
AllSpace(s) == \A i \in 1..Len(s) : SubSeq(s, i, i) \in { " ", "\t", "\n", "\r" }

\* the body has no jobDescription, or one that is blank once trimmed
NoDescription(req) ==
    \/ "jobDescription" \notin DOMAIN req.body
    \/ req.body.jobDescription.type = "undefined"
    \/ req.body.jobDescription.type = "string" /\ AllSpace(req.body.jobDescription.value)

\* the handler has answered with code and has done nothing else
OnlyAnswered(sv, code) ==
    /\ sv.statusCode = code
    /\ sv.ended
    /\ sv.json.defined
    /\ DOMAIN sv.json.value = { "error" }
    /\ sv.allJobs = <<>>
    /\ sv.headers = <<>>
    /\ sv.events = <<>>
    /\ ~ sv.parsedResume.defined

\* C30: in both handlers a request that is not a POST is answered 405 and a
\* POST without a jobDescription, or with one blank once trimmed, is answered
\* 400, and in both cases the step generates no job, parses no resume, sets no
\* header and writes no event.
ValidationFirst ==
    [][ (server' # server /\ server'.route # "none"
         /\ (server'.request.method # "POST" \/ NoDescription(server'.request)))
        => /\ OnlyAnswered(server', IF server'.request.method # "POST" THEN 405 ELSE 400)
           /\ parsed' = parsed
           /\ lastIndex' = lastIndex ]_vars

\* the stream handler has answered 400 to a POST with a blank description and
\* a resume, and no resume has been parsed
ValidationWitness ==
    /\ server.route = "stream"
    /\ server.statusCode = 400
    /\ server.request.method = "POST"
    /\ server.request.body.jobDescription = Str("   ")
    /\ server.request.body.resumeText = Str(SearchResume)
    /\ server.events = <<>>
    /\ ~ parsed.called

\* the events of type
OfType(events, type) == SelectSeq(events, LAMBDA e : e.type = type)

\* the event is the last the handler writes
Terminal(e) == e.type \in { "complete", "error" }

\* C23: the stream handler writes a status with progress 0, then for the
\* sources in the order of JOB_SOURCES a status (sourcesCompleted i, progress
\* round(100 * i / 8)) and after it the jobs of that source, then one terminal
\* event, complete with progress 100 after the jobs of the last source or
\* error, with which the response ends; progress never decreases and
\* totalFound grows from one jobs event to the next.
EventOrder ==
    (server.route = "stream" /\ server.statusCode = 200) =>
        LET events == server.events
            n      == Len(events)
            jobs   == OfType(events, "jobs")
        IN  /\ n >= 2
            /\ events[1].type = "status" /\ events[1].progress = 0
            /\ \A k \in 2..n :
                 \/ k = n /\ Terminal(events[k])
                 \/ /\ k % 2 = 0
                    /\ events[k].type = "status"
                    /\ events[k].sourcesCompleted = (k \div 2) - 1
                    /\ events[k].currentSource = JOB_SOURCES[k \div 2]
                    /\ events[k].progress = Rounded(100 * ((k \div 2) - 1), 8)
                 \/ /\ k % 2 = 1
                    /\ events[k].type = "jobs"
                    /\ events[k].source = events[k - 1].currentSource
            /\ \A k \in 1..(n - 1) : ~ Terminal(events[k])
            /\ server.ended <=> Terminal(events[n])
            /\ events[n].type = "complete" =>
                 /\ n = 2 + 2 * 8
                 /\ events[n - 1].type = "jobs"
                 /\ events[n].progress = 100
            /\ \A k, m \in 1..n :
                 (k < m /\ events[k].type \in { "status", "complete" }
                        /\ events[m].type \in { "status", "complete" })
                 => events[k].progress <= events[m].progress
            /\ \A k \in 1..(Len(jobs) - 1) : jobs[k].totalFound < jobs[k + 1].totalFound

\* a request with a resume has been served to its complete event
EventOrderWitness ==
    /\ server.route = "stream"
    /\ server.ended
    /\ Len(server.events) = 18
    /\ server.events[18].type = "complete"
    /\ server.events[1].resumeDetected
    /\ server.events[16].progress = 88
    /\ server.events[17].totalFound = 56

\* the jobs of the jobs events the handler has written
Generated(events) ==
    UNION { { e.jobs[j] : j \in 1..Len(e.jobs) } :
            e \in { events[k] : k \in { h \in 1..Len(events) : events[h].type = "jobs" } } }

\* C27: the jobs of the complete event are in non-increasing order of
\* matchScore, are at most 50, are jobs generated during the request, no job
\* left out has a higher matchScore than one of them, and no two have the same
\* id.
TopJobs ==
    (server.route = "stream" /\ server.ended /\ server.statusCode = 200
     /\ server.events[Len(server.events)].type = "complete") =>
        LET jobs      == server.events[Len(server.events)].jobs
            generated == Generated(server.events)
            returned  == { jobs[k] : k \in 1..Len(jobs) }
        IN  /\ \A k \in 1..(Len(jobs) - 1) : jobs[k].matchScore >= jobs[k + 1].matchScore
            /\ Len(jobs) <= 50
            /\ Len(jobs) = IF Cardinality(generated) < 50 THEN Cardinality(generated) ELSE 50
            /\ returned \subseteq generated
            /\ \A out \in generated \ returned : \A in \in returned :
                 out.matchScore <= in.matchScore
            /\ \A k, m \in 1..Len(jobs) : jobs[k].id = jobs[m].id => k = m

\* 56 jobs were generated, with resume and profile analyses, 50 are returned,
\* the scores differ and a job left out has the score of the last one returned
TopJobsWitness ==
    /\ server.route = "stream"
    /\ server.ended
    /\ server.statusCode = 200
    /\ server.events[Len(server.events)].type = "complete"
    /\ LET jobs      == server.events[Len(server.events)].jobs
           generated == Generated(server.events)
       IN  /\ Cardinality(generated) = 56
           /\ Len(jobs) = 50
           /\ jobs[1].matchScore > jobs[50].matchScore
           /\ jobs[1].resumeAnalysis.supplied
           /\ jobs[1].linkedinAnalysis.defined
           /\ \E k \in 1..49 : jobs[k].id > jobs[k + 1].id
           /\ \E out \in generated : out.id \notin { jobs[k].id : k \in 1..50 }
                                     /\ out.matchScore = jobs[50].matchScore

\* C24 as stated: in the complete event totalResults is the number of jobs in
\* the event's jobs list.
CompleteCountsItsJobs ==
    (server.route = "stream" /\ server.ended /\ server.statusCode = 200
     /\ server.events[Len(server.events)].type = "complete") =>
        server.events[Len(server.events)].totalResults
            = Len(server.events[Len(server.events)].jobs)

-----------------------------------------------------------------------------
(* Properties of the search page                                           *)

\* the texts of the events of the response the page is reading
WireRead == client.wire

\* C22 as stated: while the page reads the response to a form submitted with
\* a LinkedIn URL that is not blank, the handler's linkedinUrl is that URL and
\* every job the page holds carries a linkedinAnalysis.
LinkedInUrlReachesJobs ==
    (client.pc = "stream" /\ ~ AllSpace(client.linkedInUrl)) =>
        /\ "linkedinUrl" \in DOMAIN client.sent.value
        /\ client.sent.value.linkedinUrl = Str(client.linkedInUrl)
        /\ \A k \in 1..Len(client.jobs) : "linkedinAnalysis" \in DOMAIN client.jobs[k]

\* C25 as stated: once the page has read the whole line of an error event,
\* the handler of errors has run: searchStatus is 'An error occurred. Please
\* try again.' with progress 0.
ErrorEventShown ==
    (/\ client.pc = "stream"
     /\ client.splits = 0
     /\ client.read = Len(WireRead)
     /\ WireRead[client.read].json.type = "error") =>
        /\ client.searchStatus.value.message = "An error occurred. Please try again."
        /\ client.searchStatus.value.progress = 0

\* C26 as stated: once the page has read a response that ends with a complete
\* event to its end, however it was cut into chunks, the jobs it holds are
\* the jobs of that event.
CompleteJobsHeld ==
    (/\ client.pc = "stream"
     /\ ~ client.inside
     /\ client.read = Len(WireRead)
     /\ WireRead[client.read].json.type = "complete") =>
        client.jobs = WireRead[client.read].json.jobs

\* C28 as stated: whenever the results are shown, currentPage is at least 1
\* and at most totalPages.
PageInRange ==
    (client.showResults /\ ~ client.isSubmitting /\ Len(client.jobs) > 0) =>
        /\ 1 <= client.currentPage
        /\ client.currentPage <= (Len(client.jobs) + 9) \div 10

\* C29: every submit finishes, isSubmitting being false again whether the
\* search succeeded, the response was not ok, or a read failed; and while
\* isSubmitting is true handleSubmit only moves on from the file read to the
\* fetch, to the reading of the response and to its end: no submit starts.
SubmitFinishes ==
    /\ client.isSubmitting ~> ~ client.isSubmitting
    /\ [][ client.isSubmitting =>
             /\ client.pc # "idle"
             /\ \/ client'.pc = client.pc /\ client'.isSubmitting
                \/ <<client.pc, client'.pc>> \in { <<"file", "fetch">>, <<"fetch", "stream">> }
                   /\ client'.isSubmitting
                \/ client'.pc = "idle" /\ ~ client'.isSubmitting ]_vars

\* a submit with a file that could not be read has finished with its search
\* complete
SubmitFinishesWitness ==
    /\ ~ client.isSubmitting
    /\ client.showResults
    /\ client.resumeFile.defined
    /\ ~ client.resumeFile.value.readable
    /\ client.searchStatus.defined
    /\ client.searchStatus.value.progress = 100
    /\ Len(client.jobs) = 50

-----------------------------------------------------------------------------
(* Properties of the arrays the scorers take and return                    *)

\* the array that list f of the object at ref is, as h has it
ListAt(h, ref, f) == h.objects[ref.lists[f]]

\* the addresses of the lists of the object at ref
ListsOf(ref) == { ref.lists[f] : f \in DOMAIN ref.lists }

\* the lists of the results held in h that are not in g as they are in h
Changed(h, g) ==
    { c \in (1..Len(h.results)) \X
            { "matchingKeywords", "missingKeywords", "matchingSkills", "missingSkills",
              "strengthsFound", "improvementAreas", "metricsSuggestions",
              "summaryFeedback", "endorsementSuggestions", "skillGaps", "improvements" } :
        /\ c[2] \in DOMAIN h.results[c[1]].lists
        /\ ListAt(g, g.results[c[1]], c[2]) # ListAt(h, h.results[c[1]], c[2]) }

\* C21: a call of analyzeResumeForJob or analyzeLinkedInProfile leaves the
\* lists of the ParsedResume, the requirements and every result held as they
\* were, the lists of the result it returns are arrays that no argument and no
\* other result has, each a different one, and a push onto a list of a result
\* changes that list and no list of the arguments or of another result.
ResultsAreFresh ==
    [][ heap.held =>
          /\ \A f \in DOMAIN heap.resume.lists :
               ListAt(heap', heap'.resume, f) = ListAt(heap, heap.resume, f)
          /\ \A f \in DOMAIN heap.job.lists :
               ListAt(heap', heap'.job, f) = ListAt(heap, heap.job, f)
          /\ Cardinality(Changed(heap, heap')) <= 1
          /\ Len(heap'.results) > Len(heap.results) => Changed(heap, heap') = {}
          /\ \A r \in 1..Len(heap'.results) :
               /\ Cardinality(ListsOf(heap'.results[r])) = Cardinality(DOMAIN heap'.results[r].lists)
               /\ ListsOf(heap'.results[r]) \cap (ListsOf(heap'.resume) \cup ListsOf(heap'.job)) = {}
               /\ \A q \in 1..Len(heap'.results) :
                    q # r => ListsOf(heap'.results[r]) \cap ListsOf(heap'.results[q]) = {} ]_vars

\* a profile was scored with the analysis of a resume that misses a skill,
\* and after a push onto its skillGaps, which had the entries of the
\* missingSkills of the analysis, the missingSkills are as they were
ResultsAreFreshWitness ==
    /\ heap.held
    /\ heap.pushes = 1
    /\ \E r, q \in 1..Len(heap.results) :
         /\ heap.results[q].of = "analyzeResumeForJob"
         /\ heap.results[r].of = "analyzeLinkedInProfile"
         /\ heap.results[q].result.missingSkills # <<>>
         /\ heap.results[r].result.skillGaps = heap.results[q].result.missingSkills
         /\ ListAt(heap, heap.results[q], "missingSkills") = heap.results[q].result.missingSkills
         /\ ListAt(heap, heap.results[r], "skillGaps")
              = Append(heap.results[q].result.missingSkills, "entry")

====
